---- MODULE Spec2Model ----
(***************************************************************************)
(* Ralph Desktop: the Loop Engine (src-tauri/src/engine/mod.rs) and the    *)
(* loop commands (src-tauri/src/commands/loop_commands.rs) for one         *)
(* project-id.  Every call of start_loop creates a new LoopEngine with its *)
(* own pause flag, stop flag and resume Notify; the running_loops map      *)
(* holds the handle of at most one of them.                                *)
(***************************************************************************)
EXTENDS Integers, Sequences, FiniteSets, TLC

\* ---------------------------------------------------------------- bounds
\* Number of LoopEngine instances start_loop may create for the project.
MaxEngines == 2
\* Largest task.max_iterations start_loop reads from the stored task.
MaxIter == 2
\* Largest number of lines a child writes to one stream in one iteration.
MaxLines == 1
\* The same for the runs that follow the order of the lines within a stream.
MaxStreamLines == 2

\* Number of projects that have a directory under projects/.
MaxProjects == 2
\* Number of command invocations the UI host makes in the restart scenario.
MaxCalls == 3
\* Largest number of lines of an output the adapter functions are applied to.
MaxOutputLines == 2

EngineIds == 1 .. MaxEngines
\* running_loops holds no handle for the project.
NoEngine == 0
\* The UI host's command invocations are not bounded.
Unlimited == MaxCalls + 1

VARIABLES
    running_loops,    \* AppState.running_loops[uuid]: the engine whose handle is stored, or NoEngine
    status,           \* ProjectState.status of the stored project record
    pc,               \* position of each engine's driving task
    max_iterations,   \* LoopEngine.max_iterations
    cli_type,         \* LoopEngine.cli_type
    iteration,        \* local `iteration` of LoopEngine::start
    pause_requested,  \* LoopEngine.pause_requested (AtomicBool)
    stop_requested,   \* LoopEngine.stop_requested (AtomicBool)
    resume_notify,    \* LoopEngine.resume_notify: TRUE when the Notify holds a permit
    child,            \* child process of the current iteration: "none", "alive", "killed", "exited"
    stdout_done,      \* local stdout_done of the read loop
    stderr_done,      \* local stderr_done of the read loop
    stdout_n,         \* lines read from the child's stdout in this iteration
    stderr_n,         \* lines read from the child's stderr in this iteration
    completed,        \* local `completed` of the iteration
    result,           \* the LoopState returned by start(): <<kind, iteration>> or <<"None", 0>>
    last_event,       \* the LoopEvent each engine emitted last (NoEvent before the first)
    handler_stopped,  \* stop_loop has emitted Stopped on loop-event since the last start_loop
    task_cli,         \* task.cli of the stored task
    task_max_iterations, \* task.max_iterations of the stored task
    calls_left,       \* command invocations the UI host still makes, or Unlimited
    stop_arrival,     \* history: where the engine was when stop_loop first set its stop flag
    pause_owed,       \* history: pause_loop was accepted for the running engine and no Paused was emitted since
    resume_called,    \* history: resume_loop found the engine's handle while its pause flag was set, and no Resumed was emitted since
    adapter_output,   \* the lines of the output an adapter is applied to
    adapter_parsed,   \* parse_output_line of the first lines of adapter_output
    adapter_detected, \* detect_completion of adapter_output: "none" before the call, then "true" or "false"
    child_lines,      \* the most lines a child of this run writes to one stream in one iteration
    prompt,           \* task.prompt, a string of characters
    prompt_updated,   \* the values ensure_autodecide_prompt returned, oldest first
    ai_output,        \* the output of the agent given to the parsing functions
    ai_object,        \* history: the JSON object ai_output was built from, <<>> if none
    ai_shape,         \* history: how ai_output was built from ai_object
    ai_extracted,     \* extract_balanced_json(ai_output), NotCalled before the call
    ai_response,      \* parse_ai_response(ai_output), NotCalled before the call
    state_json,       \* projects/{id}/state.json of each project: no or one JSON text
    config_json,      \* config.json: no or one JSON text
    loaded,           \* what the storage function called last returned
    saved_state,      \* history: the state last saved for each project and not deleted since
    saved_config,     \* history: the configuration last given to save_config by a caller
    log_in,           \* the text given to sanitize_log
    log_out,          \* what sanitize_log returned: no or one text
    update_in,        \* the arguments of plan_update: current_version, release, idle_ok
    update_plan,      \* what plan_update returned: no or one Result
    path_in,          \* the PATH of the login shell and the extended search path, as lists of directories
    path_out          \* the PATH entries apply_shell_env gave the command: no or one list

vars == <<running_loops, status, pc, max_iterations, cli_type, iteration, pause_requested,
          stop_requested, resume_notify, child, stdout_done, stderr_done,
          stdout_n, stderr_n, completed, result, last_event, handler_stopped,
          task_cli, task_max_iterations, calls_left, stop_arrival, pause_owed, resume_called,
          adapter_output, adapter_parsed, adapter_detected, child_lines,
          prompt, prompt_updated, ai_output, ai_object, ai_shape, ai_extracted,
          ai_response, state_json, config_json, loaded, saved_state, saved_config,
          log_in, log_out, update_in, update_plan, path_in, path_out>>

\* The variables of one engine's read loop.
readVars == <<stdout_done, stderr_done, stdout_n, stderr_n, completed>>
\* The control surfaces shared with the command layer.
flagVars == <<pause_requested, stop_requested, resume_notify>>
\* The stored task.
taskVars == <<task_cli, task_max_iterations>>
\* The input and the results of the adapter functions applied on their own.
adapterVars == <<adapter_output, adapter_parsed, adapter_detected>>
\* The state no step of an engine and no loop command changes: the bound on a
\* child's lines, the task prompt and what ensure_autodecide_prompt returned, an
\* agent output and what the parsing functions made of it, the files of the
\* data directory and what the storage functions returned, a log text.
libVars ==
    <<child_lines, prompt, prompt_updated, ai_output, ai_object, ai_shape, ai_extracted,
      ai_response, state_json, config_json, loaded, saved_state, saved_config, log_in,
      log_out, update_in, update_plan, path_in, path_out>>
\* The state owned by the command layer.
cmdVars == <<running_loops, status, handler_stopped, taskVars, adapterVars, libVars, calls_left>>
histVars == <<stop_arrival, pause_owed, resume_called>>

ProjectStatus == {"Brainstorming", "Ready", "Queued", "Running", "Pausing",
                  "Paused", "Done", "Failed", "Cancelled"}
CliType == {"Claude", "Codex"}

\* A line of child output, as far as the adapters and the engine look at it.
\* form: "plain" is not JSON; "assistant_message" and "user_message" are JSON
\* objects {type, role, content} with that role; "agent_message" is the event
\* {type: item.completed, item: {type: agent_message, text}}; "tool_item" is an
\* item.completed event of another item type; "control" is thread.started,
\* turn.started, turn.completed or item.delta; "unknown_event" is a JSON object
\* with another type or none, and no role or content.
\* signal: where the completion signal occurs: "field" is inside the message
\* field (content, item.text), "raw" is in the line but outside that field.
\* trusted, skip: the line contains "Not inside a trusted directory",
\* "skip-git-repo-check".
\* secret: the line contains text that one of the patterns of sanitize_log
\* matches, such as OPENAI_API_KEY=abc.
LineForms == {"plain", "assistant_message", "user_message", "agent_message",
              "tool_item", "control", "unknown_event"}
HasMessageField(form) == form \in {"assistant_message", "user_message", "agent_message"}
Line(form, signal, trusted, skip) ==
    [form |-> form, signal |-> signal, trusted |-> trusted, skip |-> skip,
     secret |-> FALSE]
NoLine == Line("none", "none", FALSE, FALSE)
\* A line of plain text that holds a secret.
SecretLine == [Line("plain", "none", FALSE, FALSE) EXCEPT !.secret = TRUE]
\* The lines an adapter is applied to.
Lines ==
    {Line(f, g, FALSE, FALSE) : f \in LineForms, g \in {"none", "raw"}}
    \cup {Line(f, "field", FALSE, FALSE) : f \in {g \in LineForms : HasMessageField(g)}}
\* The lines a child writes to stdout: text and messages with and without the
\* signal, and a tool item that holds the signal.
StdoutLines ==
    {Line("plain", "none", FALSE, FALSE), Line("plain", "raw", FALSE, FALSE),
     Line("assistant_message", "field", FALSE, FALSE),
     Line("user_message", "field", FALSE, FALSE),
     Line("agent_message", "field", FALSE, FALSE),
     Line("tool_item", "raw", FALSE, FALSE)}
\* The lines a child writes to stderr: plain text with or without each of the
\* two markers, or with the signal, or with a secret.
StderrLines ==
    {Line("plain", "none", t, k) : t \in BOOLEAN, k \in BOOLEAN}
    \cup {Line("plain", "raw", FALSE, FALSE), SecretLine}

\* The error text of the fatal guard.
CODEX_GIT_REPO_CHECK_REQUIRED == "codex_git_repo_check_required"

\* A LoopEvent of this project: its variant and its iteration (Stopped carries
\* none, written 0); an Output also carries the stream and number of the line it
\* forwards, the line and its is_stderr field; an Error carries its text.
Event(type, n) ==
    [type |-> type, iteration |-> n, stream |-> "", line |-> 0, content |-> NoLine,
     is_stderr |-> FALSE, error |-> ""]
OutputEvent(n, stream, k, line, isErr) ==
    [type |-> "Output", iteration |-> n, stream |-> stream, line |-> k,
     content |-> line, is_stderr |-> isErr, error |-> ""]
ErrorEvent(n, error) ==
    [type |-> "Error", iteration |-> n, stream |-> "", line |-> 0, content |-> NoLine,
     is_stderr |-> FALSE, error |-> error]

NoEvent == Event("None", 0)

\* emit_event: one more event on the loop-event topic.
Emit(e, ev) == last_event' = [last_event EXCEPT ![e] = ev]

\* `return Ok(state)` of LoopEngine::start.
Return(e, kind, n) ==
    /\ result' = [result EXCEPT ![e] = <<kind, n>>]
    /\ pc' = [pc EXCEPT ![e] = "returned"]

\* The engine's task has been spawned and start() has not returned ("dropped":
\* the engine was created by a start_loop that returned an error before it
\* spawned the task).
Active(e) == pc[e] \notin {"absent", "new", "dropped", "returned", "saved", "finished"}
\* start() has returned.
Returned(e) == pc[e] \in {"returned", "saved", "finished"}

\* Where an active engine is, as far as a stop request is concerned: not yet at
\* its first statement, reading child output, waiting for the child to exit,
\* paused at one of the two gates, or anywhere else.
Position(e) ==
    CASE pc[e] = "spawned" -> "unstarted"
      [] pc[e] \in {"read", "select"} -> "reading"
      [] pc[e] = "wait" -> "waiting"
      [] pc[e] = "pre_wait" -> "pre_wait"
      [] pc[e] = "post_wait" -> "post_wait"
      [] OTHER -> "other"

\* The state after construction: no engine exists, the project is Ready with a
\* task configured.  InitEngines is the position of the engines that start_loop
\* may still create ("new") or never creates ("absent").
InitWith(InitEngines, calls) ==
    /\ calls_left = calls
    /\ running_loops = NoEngine
    /\ status = "Ready"
    /\ task_cli \in CliType
    /\ task_max_iterations \in 1 .. MaxIter
    /\ pc = InitEngines
    /\ max_iterations = [e \in EngineIds |-> 0]
    /\ cli_type = [e \in EngineIds |-> "None"]
    /\ iteration = [e \in EngineIds |-> 0]
    /\ pause_requested = [e \in EngineIds |-> FALSE]
    /\ stop_requested = [e \in EngineIds |-> FALSE]
    /\ resume_notify = [e \in EngineIds |-> FALSE]
    /\ child = [e \in EngineIds |-> "none"]
    /\ stdout_done = [e \in EngineIds |-> FALSE]
    /\ stderr_done = [e \in EngineIds |-> FALSE]
    /\ stdout_n = [e \in EngineIds |-> 0]
    /\ stderr_n = [e \in EngineIds |-> 0]
    /\ completed = [e \in EngineIds |-> FALSE]
    /\ result = [e \in EngineIds |-> <<"None", 0>>]
    /\ last_event = [e \in EngineIds |-> NoEvent]
    /\ handler_stopped = FALSE
    /\ stop_arrival = [e \in EngineIds |-> "none"]
    /\ pause_owed = [e \in EngineIds |-> FALSE]
    /\ resume_called = [e \in EngineIds |-> FALSE]
    /\ adapter_parsed = <<>>
    /\ adapter_detected = "none"

\* A Result<String, String> or Result<AiBrainstormResponse, String>: Ok holds
\* the extracted text or the response, Err the kind of the error message and
\* the number it cites.  An Option<String> is a sequence of no or one string.
NotCalled == [ok |-> FALSE, json |-> <<>>, question |-> <<>>, description |-> <<>>,
              options |-> <<>>, multi_select |-> FALSE, allow_other |-> FALSE,
              is_complete |-> FALSE, generated_prompt |-> <<>>, error |-> "not called",
              missing |-> 0]
Ok(json) == [NotCalled EXCEPT !.ok = TRUE, !.json = json, !.error = ""]
Err(error, n) == [NotCalled EXCEPT !.error = error, !.missing = n]

\* The state of what a specification about `part` leaves alone: a child
\* writes at most MaxLines lines to a stream, and the functions outside the
\* loop have no input and were not called.
Idle(part) ==
    /\ IF part = "lines" THEN TRUE ELSE child_lines = MaxLines
    /\ IF part = "prompt" THEN TRUE ELSE prompt = <<>> /\ prompt_updated = <<>>
    /\ IF part = "json" THEN TRUE
       ELSE /\ ai_output = <<>> /\ ai_object = <<>> /\ ai_shape = "none"
            /\ ai_extracted = NotCalled /\ ai_response = NotCalled
    /\ config_json = <<>>
    /\ saved_config = <<>>
    /\ IF part = "log" THEN TRUE ELSE log_in = <<>> /\ log_out = <<>>
    /\ IF part = "update" THEN TRUE ELSE update_in = <<>> /\ update_plan = <<>>
    /\ IF part = "path" THEN TRUE ELSE path_in = <<>> /\ path_out = <<>>
    /\ state_json = [p \in 1 .. MaxProjects |-> <<>>]
    /\ saved_state = [p \in 1 .. MaxProjects |-> <<>>]
    /\ loaded = [ok |-> FALSE, value |-> <<>>, error |-> "not called"]

\* ------------------------------------------------- LoopEngine::start
\* Lines 123-125: the two flag resets at the start of the task.
ResetStopFlag(e) ==
    /\ pc[e] = "spawned"
    /\ stop_requested' = [stop_requested EXCEPT ![e] = FALSE]
    /\ pc' = [pc EXCEPT ![e] = "reset_pause"]
    /\ UNCHANGED <<cmdVars, max_iterations, cli_type, iteration, pause_requested, resume_notify,
                   child, readVars, result, last_event, histVars>>

ResetPauseFlag(e) ==
    /\ pc[e] = "reset_pause"
    /\ pause_requested' = [pause_requested EXCEPT ![e] = FALSE]
    /\ resume_called' = [resume_called EXCEPT ![e] = FALSE]
    /\ pc' = [pc EXCEPT ![e] = "head"]
    /\ UNCHANGED <<cmdVars, max_iterations, cli_type, iteration, stop_requested, resume_notify,
                   child, readVars, result, last_event, stop_arrival, pause_owed>>

\* The loop condition of line 127.
LoopConditionInclusive(e) == iteration[e] <= max_iterations[e]
LoopConditionShort(e) == iteration[e] + 1 < max_iterations[e]
LoopCondition(e) == iteration[e] < max_iterations[e]

\* Lines 127-134 and 350-356: the loop condition, then the stop check before
\* the iteration.
LoopHead(e) ==
    /\ pc[e] = "head"
    /\ IF ~LoopCondition(e)
         THEN /\ Emit(e, Event("MaxIterationsReached", iteration[e]))
              /\ Return(e, "Failed", iteration[e])
         ELSE IF stop_requested[e]
         THEN /\ Emit(e, Event("Stopped", 0))
              /\ Return(e, "Idle", 0)
         ELSE /\ pc' = [pc EXCEPT ![e] = "pre_pause"]
              /\ UNCHANGED <<result, last_event>>
    /\ UNCHANGED <<cmdVars, max_iterations, cli_type, iteration, flagVars, child, readVars,
                   histVars>>

\* Lines 137-141 and 322-326: the load of the pause flag; Paused is emitted
\* when it is set, otherwise the engine goes on.
PauseCheck(e, at, waitPc, passPc) ==
    /\ pc[e] = at
    /\ IF pause_requested[e]
         THEN /\ Emit(e, Event("Paused", iteration[e]))
              /\ pc' = [pc EXCEPT ![e] = waitPc]
              /\ pause_owed' = [pause_owed EXCEPT ![e] = FALSE]
         ELSE /\ pc' = [pc EXCEPT ![e] = passPc]
              /\ UNCHANGED <<last_event, pause_owed>>
    /\ UNCHANGED <<cmdVars, max_iterations, cli_type, iteration, flagVars, child, readVars,
                   result, stop_arrival, resume_called>>

\* Lines 144-156 and 328-340, the arm `resume_notify.notified() => break`:
\* the permit of the Notify is consumed.
WaitNotified(e, at, wokenPc) ==
    /\ pc[e] = at
    /\ resume_notify[e]
    /\ resume_notify' = [resume_notify EXCEPT ![e] = FALSE]
    /\ pc' = [pc EXCEPT ![e] = wokenPc]
    /\ UNCHANGED <<cmdVars, max_iterations, cli_type, iteration, pause_requested,
                   stop_requested, child, readVars, result, last_event, histVars>>

\* The arm `sleep(100 ms)`: the stop flag is polled; without it the wait goes on.
WaitTick(e, at) ==
    /\ pc[e] = at
    /\ stop_requested[e]
    /\ Emit(e, Event("Stopped", 0))
    /\ Return(e, "Idle", 0)
    /\ UNCHANGED <<cmdVars, max_iterations, cli_type, iteration, flagVars, child, readVars,
                   histVars>>

\* Lines 159-162 and 343-346: the Resumed event carries the current iteration.
ResumedEventNext(e) == Event("Resumed", iteration[e] + 1)
ResumedEvent(e) == Event("Resumed", iteration[e])

\* Lines 158-162 and 342-346: the pause flag is cleared and Resumed is emitted.
ClearPauseAndResume(e, at, nextPc) ==
    /\ pc[e] = at
    /\ pause_requested' = [pause_requested EXCEPT ![e] = FALSE]
    /\ Emit(e, ResumedEvent(e))
    /\ pc' = [pc EXCEPT ![e] = nextPc]
    /\ resume_called' = [resume_called EXCEPT ![e] = FALSE]
    /\ UNCHANGED <<cmdVars, max_iterations, cli_type, iteration, stop_requested, resume_notify,
                   child, readVars, result, stop_arrival, pause_owed>>

PrePauseCheck(e) == PauseCheck(e, "pre_pause", "pre_wait", "start_iteration")
PreWaitNotified(e) == WaitNotified(e, "pre_wait", "pre_woken")
PreWaitTick(e) == WaitTick(e, "pre_wait")
PreResume(e) == ClearPauseAndResume(e, "pre_woken", "start_iteration")

PostPauseCheck(e) == PauseCheck(e, "post_pause", "post_wait", "head")
PostWaitNotified(e) == WaitNotified(e, "post_wait", "post_woken")
PostWaitTick(e) == WaitTick(e, "post_wait")
PostResume(e) == ClearPauseAndResume(e, "post_woken", "head")

\* An iteration that is begun without being counted.
StartIterationUncounted(e) ==
    /\ pc[e] = "start_iteration"
    /\ Emit(e, Event("IterationStart", iteration[e] + 1))
    /\ pc' = [pc EXCEPT ![e] = "spawn"]
    /\ UNCHANGED <<cmdVars, max_iterations, cli_type, iteration, flagVars, child, readVars,
                   result, histVars>>
\* Lines 165-169: the counter is incremented and IterationStart is emitted.
StartIteration(e) ==
    /\ pc[e] = "start_iteration"
    /\ iteration' = [iteration EXCEPT ![e] = @ + 1]
    /\ Emit(e, Event("IterationStart", iteration[e] + 1))
    /\ pc' = [pc EXCEPT ![e] = "spawn"]
    /\ UNCHANGED <<cmdVars, max_iterations, cli_type, flagVars, child, readVars, result,
                   histVars>>

\* Lines 171-200: the child is spawned and the read loop's locals are set.
SpawnOk(e) ==
    /\ pc[e] = "spawn"
    /\ child' = [child EXCEPT ![e] = "alive"]
    /\ stdout_done' = [stdout_done EXCEPT ![e] = FALSE]
    /\ stderr_done' = [stderr_done EXCEPT ![e] = FALSE]
    /\ stdout_n' = [stdout_n EXCEPT ![e] = 0]
    /\ stderr_n' = [stderr_n EXCEPT ![e] = 0]
    /\ completed' = [completed EXCEPT ![e] = FALSE]
    /\ pc' = [pc EXCEPT ![e] = "read"]
    /\ UNCHANGED <<cmdVars, max_iterations, cli_type, iteration, flagVars, result, last_event,
                   histVars>>

\* A spawn error that ends the run.
SpawnFailsAborts(e) ==
    /\ pc[e] = "spawn"
    /\ Emit(e, ErrorEvent(iteration[e], "Failed to spawn"))
    /\ Return(e, "Failed", iteration[e])
    /\ UNCHANGED <<cmdVars, max_iterations, cli_type, iteration, flagVars, child,
                   readVars, histVars>>

\* Lines 180-187: a spawn error emits Error and `continue`s to the loop head.
SpawnFails(e) ==
    /\ pc[e] = "spawn"
    /\ Emit(e, ErrorEvent(iteration[e], "Failed to spawn"))
    /\ pc' = [pc EXCEPT ![e] = "head"]
    /\ UNCHANGED <<cmdVars, max_iterations, cli_type, iteration, flagVars, child, readVars,
                   result, histVars>>

\* A kill that leaves the child as it is.
KillWithoutEffect(e) == child' = child
\* child.kill().await: the child is killed and reaped.
Kill(e) == child' = [child EXCEPT ![e] = "killed"]

\* A read loop that also leaves on a pause request (the check the design forbids).
ReadLoopHeadPausing(e) ==
    /\ pc[e] = "read"
    /\ IF stdout_done[e] /\ stderr_done[e]
         THEN /\ pc' = [pc EXCEPT ![e] = "after_read"]
              /\ UNCHANGED <<child, result, last_event, pause_owed>>
         ELSE IF stop_requested[e]
         THEN /\ Kill(e)
              /\ Emit(e, Event("Stopped", 0))
              /\ Return(e, "Idle", 0)
              /\ UNCHANGED pause_owed
         ELSE IF pause_requested[e]
         THEN /\ Emit(e, Event("Paused", iteration[e]))
              /\ pc' = [pc EXCEPT ![e] = "post_wait"]
              /\ pause_owed' = [pause_owed EXCEPT ![e] = FALSE]
              /\ UNCHANGED <<child, result>>
         ELSE /\ pc' = [pc EXCEPT ![e] = "select"]
              /\ UNCHANGED <<child, result, last_event, pause_owed>>
    /\ UNCHANGED <<cmdVars, max_iterations, cli_type, iteration, flagVars, readVars,
                   stop_arrival, resume_called>>

\* Lines 202-210: the condition of the read loop, then the stop check.
ReadLoopHead(e) ==
    /\ pc[e] = "read"
    /\ IF stdout_done[e] /\ stderr_done[e]
         THEN /\ pc' = [pc EXCEPT ![e] = "after_read"]
              /\ UNCHANGED <<child, result, last_event>>
         ELSE IF stop_requested[e]
         THEN /\ Kill(e)
              /\ Emit(e, Event("Stopped", 0))
              /\ Return(e, "Idle", 0)
         ELSE /\ pc' = [pc EXCEPT ![e] = "select"]
              /\ UNCHANGED <<child, result, last_event>>
    /\ UNCHANGED <<cmdVars, max_iterations, cli_type, iteration, flagVars, readVars, histVars>>

\* ------------------------------------------------------- the adapters
\* A ParsedLine: content is "line" (the whole line), "field" (the message
\* field of the line) or "empty".
ParsedLine(content, line_type, is_assistant) ==
    [content |-> content, line_type |-> line_type, is_assistant |-> is_assistant]

\* claude.rs lines 105-119: a line that deserializes as StreamJsonLine gives
\* its content field (or the empty string) and is assistant when its role is
\* "assistant"; any other line is Text and not assistant.
ClaudeCodeAdapter_parse_output_line(l) ==
    IF l.form = "plain"
      THEN ParsedLine("line", "Text", FALSE)
      ELSE ParsedLine(IF l.form \in {"assistant_message", "user_message"}
                        THEN "field" ELSE "empty",
                      "Json", l.form = "assistant_message")

\* codex.rs lines 121-175.
CodexAdapter_parse_output_line(l) ==
    CASE l.form = "plain" -> ParsedLine("line", "Text", TRUE)
      [] l.form = "agent_message" -> ParsedLine("field", "Json", TRUE)
      [] l.form = "tool_item" -> ParsedLine("empty", "Json", FALSE)
      [] l.form = "control" -> ParsedLine("empty", "Json", FALSE)
      [] OTHER -> ParsedLine("line", "Text", TRUE)

\* adapter.parse_output_line of the adapter get_adapter returns for a CLI.
parse_output_line(cli, l) ==
    IF cli = "Claude" THEN ClaudeCodeAdapter_parse_output_line(l)
                      ELSE CodexAdapter_parse_output_line(l)

\* parsed.content.contains(signal), for the ParsedLine of line l.
ContentContains(parsed, l) ==
    CASE parsed.content = "line" -> l.signal # "none"
      [] parsed.content = "field" -> l.signal = "field"
      [] OTHER -> FALSE

\* claude.rs lines 89-103: some line deserializes, has role "assistant" and
\* its content contains the signal.
ClaudeCodeAdapter_detect_completion(output) ==
    \E i \in 1 .. Len(output) :
        /\ output[i].form # "plain"
        /\ output[i].form = "assistant_message"
        /\ output[i].signal = "field"

\* codex.rs lines 116-119: output.contains(signal).
CodexAdapter_detect_completion(output) ==
    \E i \in 1 .. Len(output) : output[i].signal # "none"

detect_completion(cli, output) ==
    IF cli = "Claude" THEN ClaudeCodeAdapter_detect_completion(output)
                      ELSE CodexAdapter_detect_completion(output)

\* A completion test that ignores is_assistant.
IsCompletionAnyLine(parsed, l) == ContentContains(parsed, l)
\* Line 234: the completion test on a parsed stdout line.
IsCompletion(parsed, l) == parsed.is_assistant /\ ContentContains(parsed, l)

\* A stdout arm that forwards the lines of the stream last to first.
StdoutLineReversed(e) ==
    /\ pc[e] = "select"
    /\ ~stdout_done[e]
    /\ stdout_n[e] < child_lines
    /\ \E l \in StdoutLines :
         /\ Emit(e, OutputEvent(iteration[e], "stdout", child_lines - stdout_n[e], l, FALSE))
         /\ IF IsCompletion(parse_output_line(cli_type[e], l), l)
              THEN /\ completed' = [completed EXCEPT ![e] = TRUE]
                   /\ Kill(e)
                   /\ pc' = [pc EXCEPT ![e] = "after_read"]
              ELSE /\ pc' = [pc EXCEPT ![e] = "read"]
                   /\ UNCHANGED <<completed, child>>
    /\ stdout_n' = [stdout_n EXCEPT ![e] = @ + 1]
    /\ UNCHANGED <<cmdVars, max_iterations, cli_type, iteration, flagVars, stdout_done,
                   stderr_done, stderr_n, result, histVars>>
\* Lines 214-243, arm stdout, Ok(Some(line)): Output is emitted; a completion
\* line sets `completed`, kills the child and leaves the read loop.
StdoutLine(e) ==
    /\ pc[e] = "select"
    /\ ~stdout_done[e]
    /\ stdout_n[e] < child_lines
    /\ \E l \in StdoutLines :
         /\ Emit(e, OutputEvent(iteration[e], "stdout", stdout_n[e] + 1, l, FALSE))
         /\ IF IsCompletion(parse_output_line(cli_type[e], l), l)
              THEN /\ completed' = [completed EXCEPT ![e] = TRUE]
                   /\ Kill(e)
                   /\ pc' = [pc EXCEPT ![e] = "after_read"]
              ELSE /\ pc' = [pc EXCEPT ![e] = "read"]
                   /\ UNCHANGED <<completed, child>>
    /\ stdout_n' = [stdout_n EXCEPT ![e] = @ + 1]
    /\ UNCHANGED <<cmdVars, max_iterations, cli_type, iteration, flagVars, stdout_done,
                   stderr_done, stderr_n, result, histVars>>

\* Arm stdout, Ok(None) or Err(_): the stream is finished.
StdoutEnd(e) ==
    /\ pc[e] = "select"
    /\ ~stdout_done[e]
    /\ stdout_done' = [stdout_done EXCEPT ![e] = TRUE]
    /\ pc' = [pc EXCEPT ![e] = "read"]
    /\ UNCHANGED <<cmdVars, max_iterations, cli_type, iteration, flagVars, child, stderr_done,
                   stdout_n, stderr_n, completed, result, last_event, histVars>>

\* The guard applied whatever the CLI of the engine.
is_git_repo_check_error_any_cli(e, l) == l.trusted /\ l.skip
\* Lines 109-113: is_codex_git_repo_check_error.
is_codex_git_repo_check_error(e, l) == cli_type[e] = "Codex" /\ l.trusted /\ l.skip

\* Lines 246-275, arm stderr, Ok(Some(line)): the fatal guard emits Error,
\* kills the child and returns Failed; any other line is forwarded as Output.
StderrLine(e) ==
    /\ pc[e] = "select"
    /\ ~stderr_done[e]
    /\ stderr_n[e] < child_lines
    /\ \E l \in StderrLines :
         IF is_codex_git_repo_check_error(e, l)
           THEN /\ Emit(e, ErrorEvent(iteration[e], CODEX_GIT_REPO_CHECK_REQUIRED))
                /\ Kill(e)
                /\ Return(e, "Failed", iteration[e])
           ELSE /\ Emit(e, OutputEvent(iteration[e], "stderr", stderr_n[e] + 1, l,
                                       cli_type[e] # "Codex"))
                /\ pc' = [pc EXCEPT ![e] = "read"]
                /\ UNCHANGED <<child, result>>
    /\ stderr_n' = [stderr_n EXCEPT ![e] = @ + 1]
    /\ UNCHANGED <<cmdVars, max_iterations, cli_type, iteration, flagVars, stdout_done,
                   stderr_done, stdout_n, completed, histVars>>

StderrEnd(e) ==
    /\ pc[e] = "select"
    /\ ~stderr_done[e]
    /\ stderr_done' = [stderr_done EXCEPT ![e] = TRUE]
    /\ pc' = [pc EXCEPT ![e] = "read"]
    /\ UNCHANGED <<cmdVars, max_iterations, cli_type, iteration, flagVars, child, stdout_done,
                   stdout_n, stderr_n, completed, result, last_event, histVars>>

\* Lines 278-306, arm sleep(1 s): when the iteration deadline or the idle
\* timeout has passed, Error is emitted, the child is killed and the read loop
\* is left; otherwise the loop turns again.
TimerTick(e) ==
    /\ pc[e] = "select"
    /\ pc' = [pc EXCEPT ![e] = "read"]
    /\ UNCHANGED <<cmdVars, max_iterations, cli_type, iteration, flagVars, child, readVars,
                   result, last_event, histVars>>

\* A timeout after which the read loop turns again.
TimerTimeoutKeepsReading(e) ==
    /\ pc[e] = "select"
    /\ \E error \in {"Iteration timeout", "Idle timeout"} :
         Emit(e, ErrorEvent(iteration[e], error))
    /\ pc' = [pc EXCEPT ![e] = "read"]
    /\ UNCHANGED <<cmdVars, max_iterations, cli_type, iteration, flagVars, child,
                   readVars, result, histVars>>

\* A timeout that ends the run.
TimerTimeoutFatal(e) ==
    /\ pc[e] = "select"
    /\ \E error \in {"Iteration timeout", "Idle timeout"} :
         Emit(e, ErrorEvent(iteration[e], error))
    /\ Kill(e)
    /\ Return(e, "Failed", iteration[e])
    /\ UNCHANGED <<cmdVars, max_iterations, cli_type, iteration, flagVars, readVars,
                   histVars>>

TimerTimeout(e) ==
    /\ pc[e] = "select"
    /\ \E error \in {"Iteration timeout", "Idle timeout"} :
         Emit(e, ErrorEvent(iteration[e], error))
    /\ Kill(e)
    /\ pc' = [pc EXCEPT ![e] = "after_read"]
    /\ UNCHANGED <<cmdVars, max_iterations, cli_type, iteration, flagVars, readVars, result,
                   histVars>>

\* Lines 310-316: after the read loop, a completed iteration emits Completed
\* and returns; any other goes on to wait for the child.
AfterReadLoop(e) ==
    /\ pc[e] = "after_read"
    /\ IF completed[e]
         THEN /\ Emit(e, Event("Completed", iteration[e]))
              /\ Return(e, "Completed", iteration[e])
         ELSE /\ pc' = [pc EXCEPT ![e] = "wait"]
              /\ UNCHANGED <<result, last_event>>
    /\ UNCHANGED <<cmdVars, max_iterations, cli_type, iteration, flagVars, child, readVars,
                   histVars>>

\* Line 319: child.wait().await returns once the child has exited.
WaitChild(e) ==
    /\ pc[e] = "wait"
    /\ child' = [child EXCEPT ![e] = IF @ = "alive" THEN "exited" ELSE @]
    /\ pc' = [pc EXCEPT ![e] = "post_pause"]
    /\ UNCHANGED <<cmdVars, max_iterations, cli_type, iteration, flagVars, readVars, result,
                   last_event, histVars>>

\* ------------------------------------------- the task start_loop spawns
\* loop_commands.rs lines 91-114: the status the task stores for a result.
TerminalStatus(kind) ==
    CASE kind = "Completed" -> "Done"
      [] kind = "Failed" -> "Failed"
      [] kind = "Idle" -> "Cancelled"
      [] OTHER -> status

SaveTerminalStatus(e) ==
    /\ pc[e] = "returned"
    /\ status' = TerminalStatus(result[e][1])
    /\ pc' = [pc EXCEPT ![e] = "saved"]
    /\ UNCHANGED <<running_loops, handler_stopped, taskVars, adapterVars, libVars, calls_left,
                   max_iterations, cli_type, iteration,
                   flagVars, child, readVars, result, last_event, histVars>>

\* Lines 116-118: loops.remove(&uuid) removes whatever handle the map holds
\* for the project.
RemoveFromRunningLoops(e) ==
    /\ pc[e] = "saved"
    /\ running_loops' = NoEngine
    /\ pc' = [pc EXCEPT ![e] = "finished"]
    /\ UNCHANGED <<status, handler_stopped, taskVars, adapterVars, libVars, calls_left, max_iterations, cli_type,
                   iteration,
                   flagVars, child, readVars, result, last_event, histVars>>

\* ------------------------------------------------------- the commands
\* The UI host invokes one more command.
Invoke ==
    /\ calls_left # 0
    /\ calls_left' = IF calls_left = Unlimited THEN Unlimited ELSE calls_left - 1

\* start_loop (lines 10-122): a new engine is created from the stored task,
\* its handle is inserted in the map (replacing the one stored), the status
\* becomes Running and the driving task is spawned.
start_loop(e) ==
    /\ Invoke
    /\ pc[e] = "new"
    /\ \A f \in EngineIds : f < e => pc[f] # "new"
    /\ max_iterations' = [max_iterations EXCEPT ![e] = task_max_iterations]
    /\ cli_type' = [cli_type EXCEPT ![e] = task_cli]
    /\ running_loops' = e
    /\ status' = "Running"
    /\ handler_stopped' = FALSE
    /\ pc' = [pc EXCEPT ![e] = "spawned"]
    /\ UNCHANGED <<taskVars, adapterVars, libVars, iteration, flagVars,
                   child, readVars, result, last_event, histVars>>

\* The errors start_loop returns: the project-id is no UUID, state.json or
\* config.json cannot be loaded, the project has no task, the Codex pre-check
\* fails, the Running status cannot be saved.
StartErrors == {"invalid id", "load_project_state", "No task configured for this project",
                "load_config", CODEX_GIT_REPO_CHECK_REQUIRED, "save_project_state"}

\* start_loop (lines 10-89) returning Err(error).  Up to line 33 nothing has
\* been changed; the save of line 84 comes after LoopEngine::new and
\* loops.insert (lines 47-70), and its `?` returns before the task is spawned.
start_loop_err(e, error) ==
    /\ Invoke
    /\ pc[e] = "new"
    /\ \A f \in EngineIds : f < e => pc[f] # "new"
    /\ error = CODEX_GIT_REPO_CHECK_REQUIRED => task_cli = "Codex"
    /\ IF error = "save_project_state"
         THEN /\ max_iterations' = [max_iterations EXCEPT ![e] = task_max_iterations]
              /\ cli_type' = [cli_type EXCEPT ![e] = task_cli]
              /\ running_loops' = e
              /\ pc' = [pc EXCEPT ![e] = "dropped"]
         ELSE UNCHANGED <<max_iterations, cli_type, running_loops, pc>>
    /\ UNCHANGED <<status, handler_stopped, taskVars, adapterVars, libVars, iteration,
                   flagVars, child, readVars, result, last_event, histVars>>

\* A pause accepted now is one the engine still has to honour: the engine is
\* past its flag reset, has not returned and is not waiting at a pause gate
\* (where the pause is in effect already).
PauseOutstanding(e) ==
    Active(e) /\ pc[e] \notin {"spawned", "reset_pause", "pre_wait", "post_wait"}

\* pause_loop (lines 165-185): with a handle in the map the pause flag is set
\* and the status becomes Pausing; without one the call returns the error
\* "Loop not running for this project".
pause_loop ==
    /\ Invoke
    /\ IF running_loops # NoEngine
         THEN LET h == running_loops
              IN  /\ pause_requested' = [pause_requested EXCEPT ![h] = TRUE]
                  /\ pause_owed' = [pause_owed EXCEPT ![h] = @ \/ PauseOutstanding(h)]
                  /\ status' = "Pausing"
         ELSE UNCHANGED <<pause_requested, pause_owed, status>>
    /\ UNCHANGED <<running_loops, handler_stopped, taskVars, adapterVars, libVars, pc,
                   max_iterations, cli_type,
                   iteration, stop_requested, resume_notify, child, readVars, result,
                   last_event, stop_arrival, resume_called>>

\* resume_loop (lines 189-212): with a handle in the map the Notify is
\* signalled and the status becomes Running; without one the call returns the
\* error "Loop not running for this project".
resume_loop ==
    /\ Invoke
    /\ IF running_loops # NoEngine
         THEN LET h == running_loops
              IN  /\ resume_notify' = [resume_notify EXCEPT ![h] = TRUE]
                  /\ resume_called' = [resume_called EXCEPT ![h] = @ \/ pause_requested[h]]
                  /\ status' = "Running"
         ELSE UNCHANGED <<resume_notify, resume_called, status>>
    /\ UNCHANGED <<running_loops, handler_stopped, taskVars, adapterVars, libVars, pc,
                   max_iterations, cli_type,
                   iteration, pause_requested, stop_requested, child, readVars,
                   result, last_event, stop_arrival, pause_owed>>

\* stop_loop (lines 216-254): with a handle in the map the stop flag is set
\* and the Notify is signalled; with or without one the status becomes
\* Cancelled and Stopped is emitted, and without one the call then returns the
\* error "Loop not running for this project".
stop_loop ==
    /\ Invoke
    /\ IF running_loops # NoEngine
         THEN LET h == running_loops
              IN  /\ stop_requested' = [stop_requested EXCEPT ![h] = TRUE]
                  /\ resume_notify' = [resume_notify EXCEPT ![h] = TRUE]
                  /\ stop_arrival' =
                        [stop_arrival EXCEPT ![h] =
                            IF @ = "none" /\ Active(h) THEN Position(h) ELSE @]
         ELSE UNCHANGED <<stop_requested, resume_notify, stop_arrival>>
    /\ status' = "Cancelled"
    /\ handler_stopped' = TRUE
    /\ UNCHANGED <<running_loops, taskVars, adapterVars, libVars, pc, max_iterations, cli_type, iteration,
                   pause_requested, child, readVars, result, last_event, pause_owed,
                   resume_called>>

\* get_loop_status (lines 258-265): the map holds a handle for the project.
get_loop_status == running_loops # NoEngine

\* ------------------------------------------------------ specification
EngineStep(e) ==
    \/ ResetStopFlag(e)
    \/ ResetPauseFlag(e)
    \/ LoopHead(e)
    \/ PrePauseCheck(e)
    \/ PreWaitNotified(e)
    \/ PreWaitTick(e)
    \/ PreResume(e)
    \/ StartIteration(e)
    \/ SpawnOk(e)
    \/ SpawnFails(e)
    \/ ReadLoopHead(e)
    \/ StdoutLine(e)
    \/ StdoutEnd(e)
    \/ StderrLine(e)
    \/ StderrEnd(e)
    \/ TimerTick(e)
    \/ TimerTimeout(e)
    \/ AfterReadLoop(e)
    \/ WaitChild(e)
    \/ PostPauseCheck(e)
    \/ PostWaitNotified(e)
    \/ PostWaitTick(e)
    \/ PostResume(e)
    \/ SaveTerminalStatus(e)
    \/ RemoveFromRunningLoops(e)

Next ==
    \/ \E e \in EngineIds : EngineStep(e)
    \/ \E e \in EngineIds : start_loop(e)
    \/ pause_loop
    \/ resume_loop
    \/ stop_loop

\* One start_loop call: a single engine run under every interleaving of
\* pause_loop, resume_loop and stop_loop.
Init ==
    /\ InitWith([e \in EngineIds |-> IF e = 1 THEN "new" ELSE "absent"], Unlimited)
    /\ adapter_output = <<>>
    /\ Idle("loop")
Spec == Init /\ [][Next]_vars

\* start_loop called again, also while the previous engine has not returned:
\* MaxCalls command invocations on a Codex project whose task has
\* max_iterations = 1.
InitRestart ==
    /\ InitWith([e \in EngineIds |-> "new"], MaxCalls)
    /\ adapter_output = <<>>
    /\ Idle("loop")
    /\ task_cli = "Codex"
    /\ task_max_iterations = 1
SpecRestart == InitRestart /\ [][Next]_vars

\* One run whose children write up to MaxStreamLines lines to each stream in
\* an iteration.
InitLines ==
    /\ InitWith([e \in EngineIds |-> IF e = 1 THEN "new" ELSE "absent"], Unlimited)
    /\ adapter_output = <<>>
    /\ Idle("lines")
    /\ child_lines = MaxStreamLines
SpecLines == InitLines /\ [][Next]_vars

\* project_commands.rs lines 87-103: update_task_max_iterations stores the
\* u32 it is given.
update_task_max_iterations(n) ==
    /\ Invoke
    /\ task_max_iterations' = n
    /\ UNCHANGED <<running_loops, status, handler_stopped, task_cli, adapterVars, libVars, pc,
                   max_iterations, cli_type, iteration, flagVars, child, readVars,
                   result, last_event, histVars>>

\* project_commands.rs lines 285-318: complete_ai_brainstorm replaces the task
\* by one with the given CLI and max_iterations and sets the status to Ready.
complete_ai_brainstorm(cli, n) ==
    /\ Invoke
    /\ task_cli' = cli
    /\ task_max_iterations' = n
    /\ status' = "Ready"
    /\ UNCHANGED <<running_loops, handler_stopped, adapterVars, libVars, pc,
                   max_iterations, cli_type, iteration, flagVars, child, readVars,
                   result, last_event, histVars>>

\* The loop commands together with the commands that configure the task:
\* MaxCalls command invocations, one start_loop among them.
NextTask ==
    \/ Next
    \/ \E n \in 0 .. MaxIter : update_task_max_iterations(n)
    \/ \E cli \in CliType, n \in 0 .. MaxIter : complete_ai_brainstorm(cli, n)

InitTask ==
    /\ InitWith([e \in EngineIds |-> IF e = 1 THEN "new" ELSE "absent"], MaxCalls)
    /\ adapter_output = <<>>
    /\ Idle("loop")
SpecTask == InitTask /\ [][NextTask]_vars

\* The loop commands when start_loop may fail: MaxCalls command invocations.
SpecStart ==
    /\ InitTask
    /\ [][\/ Next
          \/ \E e \in EngineIds, error \in StartErrors : start_loop_err(e, error)]_vars

\* The adapter functions on their own: the adapter of either CLI is applied
\* to an output of at most MaxOutputLines lines.
ParseNextLine ==
    /\ Len(adapter_parsed) < Len(adapter_output)
    /\ adapter_parsed' =
          Append(adapter_parsed,
                 parse_output_line(task_cli, adapter_output[Len(adapter_parsed) + 1]))
    /\ UNCHANGED <<running_loops, status, handler_stopped, taskVars, calls_left, pc,
                   max_iterations, cli_type, iteration, flagVars, child, readVars,
                   result, last_event, histVars, adapter_output, adapter_detected, libVars>>

DetectCompletion ==
    /\ adapter_detected = "none"
    /\ adapter_detected' =
          IF detect_completion(task_cli, adapter_output) THEN "true" ELSE "false"
    /\ UNCHANGED <<running_loops, status, handler_stopped, taskVars, calls_left, pc,
                   max_iterations, cli_type, iteration, flagVars, child, readVars,
                   result, last_event, histVars, adapter_output, adapter_parsed, libVars>>

NextAdapters == ParseNextLine \/ DetectCompletion

InitAdapters ==
    /\ InitWith([e \in EngineIds |-> "absent"], 0)
    /\ adapter_output \in UNION {[1 .. n -> Lines] : n \in 0 .. MaxOutputLines}
    /\ Idle("loop")
SpecAdapters == InitAdapters /\ [][NextAdapters]_vars

\* ------------------------------------------- ensure_autodecide_prompt
\* Strings are sequences of characters.  The marker is written with three
\* characters, ordinary text with "a", whitespace is a blank or a line feed.
PromptChars == {"[", "R", "]", "a", " ", "\n"}
Whitespace == {" ", "\n"}
\* loop_commands.rs line 124.
AUTO_DECIDE_MARKER == <<"[", "R", "]">>
\* The five instruction lines of the policy after the marker, joined by "\n".
PolicyInstructions == <<"a", "\n", "a">>
\* Largest number of characters of a stored prompt.
MaxPromptLen == 4
\* Largest number of times start_loop applies ensure_autodecide_prompt.
MaxApplications == 2

\* str::contains: the positions at which m occurs in s.
Occurrences(s, m) ==
    {i \in 1 .. Len(s) - Len(m) + 1 : SubSeq(s, i, i + Len(m) - 1) = m}
Contains(s, m) == Occurrences(s, m) # {}

\* str::trim: leading and trailing whitespace removed.
Trim(s) ==
    LET RECURSIVE TrimStart(_), TrimEnd(_)
        TrimStart(t) == IF t # <<>> /\ Head(t) \in Whitespace THEN TrimStart(Tail(t)) ELSE t
        TrimEnd(t) ==
            IF t # <<>> /\ t[Len(t)] \in Whitespace
              THEN TrimEnd(SubSeq(t, 1, Len(t) - 1)) ELSE t
    IN TrimEnd(TrimStart(s))

\* The policy prefix put before the prompt whether or not it is there already.
ensure_autodecide_prompt_always(p) ==
    [prompt |-> AUTO_DECIDE_MARKER \o <<"\n">> \o PolicyInstructions \o <<"\n", "\n">> \o Trim(p),
     updated |-> TRUE]
\* Lines 126-143: the prompt afterwards and the value returned.
ensure_autodecide_prompt(p) ==
    IF Contains(p, AUTO_DECIDE_MARKER)
      THEN [prompt |-> p, updated |-> FALSE]
      ELSE [prompt |-> AUTO_DECIDE_MARKER \o <<"\n">> \o PolicyInstructions
                          \o <<"\n", "\n">> \o Trim(p),
            updated |-> TRUE]

\* start_loop line 26: the function applied to the task's prompt.
EnsureAutodecidePrompt ==
    /\ Len(prompt_updated) < MaxApplications
    /\ prompt' = ensure_autodecide_prompt(prompt).prompt
    /\ prompt_updated' = Append(prompt_updated, ensure_autodecide_prompt(prompt).updated)
    /\ UNCHANGED <<running_loops, status, handler_stopped, taskVars, adapterVars, calls_left,
                   pc, max_iterations, cli_type, iteration, flagVars, child, readVars,
                   result, last_event, histVars, child_lines, ai_output, ai_object,
                   ai_shape, ai_extracted, ai_response, state_json, config_json, loaded,
                   saved_state, saved_config, log_in, log_out, update_in, update_plan,
                   path_in, path_out>>

\* The function on its own, applied to every prompt of at most MaxPromptLen
\* characters.
InitPrompt ==
    /\ InitWith([e \in EngineIds |-> "absent"], 0)
    /\ adapter_output = <<>>
    /\ Idle("prompt")
    /\ prompt \in UNION {[1 .. n -> PromptChars] : n \in 0 .. MaxPromptLen}
    /\ prompt_updated = <<>>
SpecPrompt == InitPrompt /\ [][EnsureAutodecidePrompt]_vars

\* ------------------------------------------------ engine/ai_brainstorm.rs
\* Agent output is a sequence of characters: the JSON punctuation, "a" for any
\* other character of a token or a text, "D" for the completion signal
\* <done>COMPLETE</done>, "#" for a fence of three backticks and "j" for the
\* word json after it.
\* Largest number of characters of a JSON object of an agent output.
MaxJsonLen == 8
\* Largest number of characters of the text after a JSON object.
MaxTrailLen == 1
\* Largest number of characters of an agent output that holds no JSON.
MaxTextLen == 3

Cat(A, B) == {a \o b : a \in A, b \in B}
\* The JSON objects of at most MaxJsonLen characters, without whitespace.
\* StringBody(n) is the inside of a string literal of n characters: any
\* character but the quote and the backslash, or a backslash and the character
\* it escapes.  A value is an object, an array, a string or a one-character
\* literal; JsonList("member", n) is the inside of an object and
\* JsonList("value", n) the inside of an array.
JsonObjects ==
    LET RECURSIVE StringBody(_), JsonValue(_), JsonList(_, _), JsonObject(_)
        StringBody(n) ==
            IF n = 0 THEN {<<>>}
            ELSE Cat({<<c>> : c \in {"{", "}", "[", "]", "a"}}, StringBody(n - 1))
                 \cup IF n < 2 THEN {}
                      ELSE Cat({<<"\\", c>> : c \in {"\"", "\\"}}, StringBody(n - 2))
        JsonString(n) ==
            IF n < 2 THEN {} ELSE Cat(Cat({<<"\"">>}, StringBody(n - 2)), {<<"\"">>})
        JsonValue(n) ==
            JsonObject(n) \cup JsonString(n)
            \cup (IF n = 1 THEN {<<"a">>} ELSE {})
            \cup (IF n = 2 THEN {<<"[", "]">>} ELSE {})
            \cup (IF n > 2 THEN Cat(Cat({<<"[">>}, JsonList("value", n - 2)), {<<"]">>})
                            ELSE {})
        JsonList(kind, n) ==
            LET Item(m) ==
                  IF kind = "value" THEN JsonValue(m)
                  ELSE UNION {Cat(Cat(JsonString(i), {<<":">>}), JsonValue(m - i - 1)) :
                                i \in 2 .. m - 2}
            IN Item(n) \cup UNION {Cat(Cat(Item(i), {<<",">>}), JsonList(kind, n - i - 1)) :
                                     i \in 1 .. n - 2}
        JsonObject(n) ==
            IF n < 2 THEN {}
            ELSE IF n = 2 THEN {<<"{", "}">>}
            ELSE Cat(Cat({<<"{">>}, JsonList("member", n - 2)), {<<"}">>})
    IN UNION {JsonObject(n) : n \in 2 .. MaxJsonLen}

\* Lines 359-372 with the two tests in the other order.
WalkEndStringFirst(depth, in_string) ==
    IF in_string THEN Err("Incomplete JSON: unclosed string", 0)
    ELSE IF depth > 0 THEN Err("Incomplete JSON: missing closing brace(s)", depth)
    ELSE Err("Invalid JSON structure", 0)
\* Lines 359-372: the error after the last character.
WalkEnd(depth, in_string) ==
    IF depth > 0 THEN Err("Incomplete JSON: missing closing brace(s)", depth)
    ELSE IF in_string THEN Err("Incomplete JSON: unclosed string", 0)
    ELSE Err("Invalid JSON structure", 0)

\* Lines 336-356: the loop over the characters from position i on.
RECURSIVE Walk(_, _, _, _, _)
Walk(chars, i, depth, in_string, escape_next) ==
    IF i > Len(chars) THEN WalkEnd(depth, in_string)
    ELSE IF escape_next THEN Walk(chars, i + 1, depth, in_string, FALSE)
    ELSE IF chars[i] = "\\" /\ in_string THEN Walk(chars, i + 1, depth, in_string, TRUE)
    ELSE IF chars[i] = "\"" THEN Walk(chars, i + 1, depth, ~in_string, FALSE)
    ELSE IF chars[i] = "{" /\ ~in_string THEN Walk(chars, i + 1, depth + 1, in_string, FALSE)
    ELSE IF chars[i] = "}" /\ ~in_string
      THEN IF depth - 1 = 0 THEN Ok(SubSeq(chars, 1, i))
           ELSE Walk(chars, i + 1, depth - 1, in_string, FALSE)
    ELSE Walk(chars, i + 1, depth, in_string, FALSE)

\* The text up to the first closing brace, whatever is open there.
extract_up_to_first_brace(input) ==
    IF \E i \in 1 .. Len(input) : input[i] = "}"
      THEN Ok(SubSeq(input, 1, CHOOSE i \in 1 .. Len(input) :
                                  /\ input[i] = "}"
                                  /\ \A k \in 1 .. i - 1 : input[k] # "}"))
      ELSE Walk(input, 1, 0, FALSE, FALSE)
\* Lines 330-373.
extract_balanced_json(input) == Walk(input, 1, 0, FALSE, FALSE)

\* str::find: the first position at which m occurs in s, 0 if none.
Find(s, m) ==
    IF Contains(s, m)
      THEN CHOOSE i \in Occurrences(s, m) : \A k \in Occurrences(s, m) : i <= k
      ELSE 0


\* Lines 387-400: the loop of validate_json_structure, which counts brackets
\* as well as braces and reads every character.
RECURSIVE ValidateWalk(_, _, _, _, _)
ValidateWalk(chars, i, depth, in_string, escape_next) ==
    IF i > Len(chars)
      THEN IF depth # 0 THEN Err("Unbalanced JSON structure", depth)
           ELSE IF in_string THEN Err("Unclosed string in JSON", 0)
           ELSE Ok(chars)
    ELSE IF escape_next THEN ValidateWalk(chars, i + 1, depth, in_string, FALSE)
    ELSE IF chars[i] = "\\" /\ in_string THEN ValidateWalk(chars, i + 1, depth, in_string, TRUE)
    ELSE IF chars[i] = "\"" THEN ValidateWalk(chars, i + 1, depth, ~in_string, FALSE)
    ELSE IF chars[i] \in {"{", "["} /\ ~in_string
      THEN ValidateWalk(chars, i + 1, depth + 1, in_string, FALSE)
    ELSE IF chars[i] \in {"}", "]"} /\ ~in_string
      THEN ValidateWalk(chars, i + 1, depth - 1, in_string, FALSE)
    ELSE ValidateWalk(chars, i + 1, depth, in_string, FALSE)
\* Lines 376-416.
validate_json_structure(json_str) ==
    IF Trim(json_str) = <<>> THEN Err("Empty JSON content", 0)
    ELSE ValidateWalk(Trim(json_str), 1, 0, FALSE, FALSE)

\* Lines 291-327: a json fence, then any fence (the line of the opening fence
\* skipped), then the first opening brace.
extract_json(output) ==
    LET trimmed == Trim(output)
        after_json == SubSeq(trimmed, Find(trimmed, <<"#", "j">>) + 2, Len(trimmed))
        block == SubSeq(trimmed, Find(trimmed, <<"#">>) + 1, Len(trimmed))
        after_fence == IF Contains(block, <<"\n">>)
                         THEN SubSeq(block, Find(block, <<"\n">>) + 1, Len(block)) ELSE block
    IN IF Contains(trimmed, <<"#", "j">>) /\ Contains(after_json, <<"#">>)
         THEN validate_json_structure(SubSeq(after_json, 1, Find(after_json, <<"#">>) - 1))
       ELSE IF Contains(trimmed, <<"#">>) /\ Contains(after_fence, <<"#">>)
         THEN validate_json_structure(SubSeq(after_fence, 1, Find(after_fence, <<"#">>) - 1))
       ELSE IF Contains(trimmed, <<"{">>)
         THEN extract_balanced_json(SubSeq(trimmed, Find(trimmed, <<"{">>), Len(trimmed)))
       ELSE Err("No JSON found in output", 0)

\* Line 236: serde_json::from_str::<AiBrainstormResponse>.  The members of an
\* object are not told apart: the response read from a well-formed object is
\* represented by that object, and every other text is an error.
from_str(json_str) ==
    IF json_str \in JsonObjects THEN Ok(json_str)
    ELSE Err("Failed to parse AI response", 0)

\* The fallback that never looks for the completion signal.
FallbackQuestionOnly(output) ==
    [Ok(<<>>) EXCEPT !.question = Trim(output)]
\* Lines 239-285: the output taken as text.  The question and description of
\* the terminal response are fixed texts chosen by detect_language.
Fallback(output) ==
    IF Contains(Trim(output), <<"D">>)
      THEN [Ok(<<>>) EXCEPT !.question = <<"Requirements complete">>,
                            !.description = <<"Generated task prompt">>,
                            !.is_complete = TRUE,
                            !.generated_prompt = <<Trim(output)>>]
      ELSE [Ok(<<>>) EXCEPT !.question = Trim(output)]

\* Lines 231-287.
parse_ai_response(output) ==
    IF extract_json(output).ok THEN from_str(extract_json(output).json)
    ELSE Fallback(output)

\* The two functions applied to one agent output.
ExtractBalancedJson ==
    /\ ai_extracted = NotCalled
    /\ ai_extracted' = extract_balanced_json(ai_output)
    /\ UNCHANGED <<running_loops, status, handler_stopped, taskVars, adapterVars, calls_left,
                   pc, max_iterations, cli_type, iteration, flagVars, child, readVars,
                   result, last_event, histVars, child_lines, prompt, prompt_updated,
                   state_json, config_json, loaded, saved_state, saved_config,
                   log_in, log_out, update_in, update_plan, path_in, path_out,
                   ai_output, ai_object, ai_shape, ai_response>>
ParseAiResponse ==
    /\ ai_response = NotCalled
    /\ ai_response' = parse_ai_response(ai_output)
    /\ UNCHANGED <<running_loops, status, handler_stopped, taskVars, adapterVars, calls_left,
                   pc, max_iterations, cli_type, iteration, flagVars, child, readVars,
                   result, last_event, histVars, child_lines, prompt, prompt_updated,
                   state_json, config_json, loaded, saved_state, saved_config,
                   log_in, log_out, update_in, update_plan, path_in, path_out,
                   ai_output, ai_object, ai_shape, ai_extracted>>

\* The texts of at most n characters over the characters of C.
Texts(C, n) == UNION {[1 .. k -> C] : k \in 0 .. n}
\* The agent outputs: a JSON object followed by text; a prefix of an object
\* that is not the whole object; text without fence and opening brace; an
\* object, whole or without its last brace, after an opening fence of each
\* form, with and without the closing fence.
InitJson ==
    /\ InitWith([e \in EngineIds |-> "absent"], 0)
    /\ adapter_output = <<>>
    /\ Idle("json")
    /\ ai_extracted = NotCalled
    /\ ai_response = NotCalled
    /\ ai_object \in JsonObjects \cup {<<>>}
    /\ ai_shape \in {"object", "prefix", "text", "fenced"}
    /\ (ai_shape = "text") = (ai_object = <<>>)
    /\ ai_output \in
         CASE ai_shape = "object" ->
                Cat({ai_object}, Texts({"{", "}", "\"", "\\", "a", " "}, MaxTrailLen))
           [] ai_shape = "prefix" ->
                {SubSeq(ai_object, 1, k) : k \in 0 .. Len(ai_object) - 1}
           [] ai_shape = "text" -> Texts({"a", " ", "D", "}", "\""}, MaxTextLen)
           [] ai_shape = "fenced" ->
                Cat(Cat({<<"#", "j", "\n">>, <<"#", "a", "\n">>, <<"#", "\n">>, <<"#">>},
                        {ai_object, SubSeq(ai_object, 1, Len(ai_object) - 1)}),
                    {<<"\n", "#">>, <<>>})
SpecJson == InitJson /\ [][ExtractBalancedJson \/ ParseAiResponse]_vars

\* ---------------------------------------------------------- storage/mod.rs
ProjectIds == 1 .. MaxProjects
Theme == {"Light", "Dark", "System"}
\* The project states and configurations that are saved: the fields of each
\* type a ProjectState or GlobalConfig holds (Uuid, String, enum, Option of a
\* struct, u32, u64, bool).  An Option is a sequence of no or one value.  A
\* project state has any status and no task, or is Ready with any task.
ProjectStates ==
    {x \in [id : ProjectIds, name : {"a"}, status : ProjectStatus,
            task : {<<>>} \cup {<<t>> : t \in [cli : CliType,
                                                max_iterations : 0 .. MaxIter]}] :
       x.status = "Ready" \/ x.task = <<>>}
TimeoutValues == {0, 1, 120000, 600000}
GlobalConfigs ==
    [default_cli : CliType, iteration_timeout_ms : TimeoutValues,
     idle_timeout_ms : TimeoutValues, theme : Theme, permissions_confirmed : BOOLEAN]

\* A JSON value of a file: its kind, the text of a string or number, the
\* members (key and value) of an object.
Json(kind, text, members) == [kind |-> kind, text |-> text, members |-> members]
\* The value of the member `key` of an object, of kind "missing" if it has none.
Member(json, key) ==
    LET I == {i \in 1 .. Len(json.members) : json.members[i].key = key}
    IN IF I = {} THEN Json("missing", "", <<>>)
       ELSE json.members[CHOOSE i \in I : \A k \in I : i <= k].value
\* #[serde(rename_all = "lowercase")] of the three enums.
Lowercase ==
    [Brainstorming |-> "brainstorming", Ready |-> "ready", Queued |-> "queued",
     Running |-> "running", Pausing |-> "pausing", Paused |-> "paused", Done |-> "done",
     Failed |-> "failed", Cancelled |-> "cancelled", Claude |-> "claude",
     Codex |-> "codex", Light |-> "light", Dark |-> "dark", System |-> "system"]
\* Deserialize of an enum, of a number and of a bool: the values the text stands for.
Variants(E, json) == {v \in E : json.kind = "string" /\ Lowercase[v] = json.text}
Numbers(R, json) == {n \in R : json.kind = "number" /\ ToString(n) = json.text}
Bools(json) == {b \in BOOLEAN : json.kind = IF b THEN "true" ELSE "false"}

\* A storage::Result: Ok holds the value loaded (none for a save).
StorageResult(ok, value, error) == [ok |-> ok, value |-> value, error |-> error]

\* Serialize of ProjectState with the enums written by their variant names.
to_string_pretty_variant_names(state) ==
    Json("object", "",
         <<[key |-> "id", value |-> Json("string", ToString(state.id), <<>>)],
           [key |-> "name", value |-> Json("string", state.name, <<>>)],
           [key |-> "status", value |-> Json("string", state.status, <<>>)],
           [key |-> "task",
            value |-> IF state.task = <<>> THEN Json("null", "", <<>>)
                      ELSE Json("object", "",
                                <<[key |-> "cli",
                                   value |-> Json("string", state.task[1].cli, <<>>)],
                                  [key |-> "maxIterations",
                                   value |-> Json("number",
                                                  ToString(state.task[1].max_iterations),
                                                  <<>>)]>>)]>>)
\* models.rs lines 81-93, 125-133: Serialize of ProjectState (camelCase keys).
to_string_pretty(state) ==
    Json("object", "",
         <<[key |-> "id", value |-> Json("string", ToString(state.id), <<>>)],
           [key |-> "name", value |-> Json("string", state.name, <<>>)],
           [key |-> "status", value |-> Json("string", Lowercase[state.status], <<>>)],
           [key |-> "task",
            value |-> IF state.task = <<>> THEN Json("null", "", <<>>)
                      ELSE Json("object", "",
                                <<[key |-> "cli",
                                   value |-> Json("string", Lowercase[state.task[1].cli],
                                                  <<>>)],
                                  [key |-> "maxIterations",
                                   value |-> Json("number",
                                                  ToString(state.task[1].max_iterations),
                                                  <<>>)]>>)]>>)
\* Deserialize of ProjectState: every field but an Option is required.
ProjectState_from_str(content) ==
    LET ids == {p \in ProjectIds : Member(content, "id").kind = "string"
                                     /\ ToString(p) = Member(content, "id").text}
        statuses == Variants(ProjectStatus, Member(content, "status"))
        task == Member(content, "task")
        clis == Variants(CliType, Member(task, "cli"))
        iters == Numbers(0 .. MaxIter, Member(task, "maxIterations"))
    IN IF /\ content.kind = "object" /\ ids # {} /\ statuses # {}
          /\ Member(content, "name").kind = "string"
          /\ \/ task.kind \in {"missing", "null"}
             \/ task.kind = "object" /\ clis # {} /\ iters # {}
         THEN StorageResult(TRUE,
                  <<[id |-> CHOOSE p \in ids : TRUE,
                     name |-> Member(content, "name").text,
                     status |-> CHOOSE v \in statuses : TRUE,
                     task |-> IF task.kind = "object"
                                THEN <<[cli |-> CHOOSE v \in clis : TRUE,
                                        max_iterations |-> CHOOSE n \in iters : TRUE]>>
                                ELSE <<>>]>>, "")
         ELSE StorageResult(FALSE, <<>>, "JSON error")

\* Lines 131-137.
save_project_state(state) ==
    /\ Invoke
    /\ state_json' = [state_json EXCEPT ![state.id] = <<to_string_pretty(state)>>]
    /\ saved_state' = [saved_state EXCEPT ![state.id] = <<state>>]
    /\ loaded' = StorageResult(TRUE, <<>>, "")
    /\ UNCHANGED <<config_json, saved_config>>
\* Lines 117-128.
load_project_state(project_id) ==
    /\ Invoke
    /\ loaded' = IF state_json[project_id] = <<>>
                   THEN StorageResult(FALSE, <<>>, "Project not found")
                   ELSE ProjectState_from_str(state_json[project_id][1])
    /\ UNCHANGED <<state_json, saved_state, config_json, saved_config>>
\* Lines 140-146.
delete_project_data(project_id) ==
    /\ Invoke
    /\ state_json' = [state_json EXCEPT ![project_id] = <<>>]
    /\ saved_state' = [saved_state EXCEPT ![project_id] = <<>>]
    /\ loaded' = StorageResult(TRUE, <<>>, "")
    /\ UNCHANGED <<config_json, saved_config>>

\* The part of the state that the storage functions, sanitize_log, plan_update
\* and apply_shell_env leave alone.
NotStored ==
    <<running_loops, status, handler_stopped, taskVars, adapterVars, pc, max_iterations,
      cli_type, iteration, flagVars, child, readVars, result, last_event, histVars,
      child_lines, prompt, prompt_updated, ai_output, ai_object, ai_shape, ai_extracted,
      ai_response, update_in, path_in>>
\* MaxCalls calls of the three functions on an empty data directory.
InitProjectStore ==
    /\ InitWith([e \in EngineIds |-> "absent"], MaxCalls)
    /\ adapter_output = <<>>
    /\ Idle("store")
    /\ task_cli = "Claude"
    /\ task_max_iterations = 1
SpecProjectStore ==
    /\ InitProjectStore
    /\ [][\/ \E state \in ProjectStates :
              save_project_state(state) /\ UNCHANGED <<NotStored, log_in, log_out, update_plan, path_out>>
          \/ \E id \in ProjectIds :
              load_project_state(id) /\ UNCHANGED <<NotStored, log_in, log_out, update_plan, path_out>>
          \/ \E id \in ProjectIds :
              delete_project_data(id) /\ UNCHANGED <<NotStored, log_in, log_out, update_plan, path_out>>]_vars

\* models.rs lines 8-19: Serialize of GlobalConfig (camelCase keys).
GlobalConfig_to_string_pretty(config) ==
    Json("object", "",
         <<[key |-> "defaultCli",
            value |-> Json("string", Lowercase[config.default_cli], <<>>)],
           [key |-> "iterationTimeoutMs",
            value |-> Json("number", ToString(config.iteration_timeout_ms), <<>>)],
           [key |-> "idleTimeoutMs",
            value |-> Json("number", ToString(config.idle_timeout_ms), <<>>)],
           [key |-> "theme", value |-> Json("string", Lowercase[config.theme], <<>>)],
           [key |-> "permissionsConfirmed",
            value |-> Json(IF config.permissions_confirmed THEN "true" ELSE "false",
                           "", <<>>)]>>)
\* Deserialize of GlobalConfig: every field is required.
GlobalConfig_from_str(content) ==
    LET clis == Variants(CliType, Member(content, "defaultCli"))
        iteration_timeouts == Numbers(TimeoutValues, Member(content, "iterationTimeoutMs"))
        idle_timeouts == Numbers(TimeoutValues, Member(content, "idleTimeoutMs"))
        themes == Variants(Theme, Member(content, "theme"))
        confirmed == Bools(Member(content, "permissionsConfirmed"))
    IN IF /\ content.kind = "object" /\ clis # {} /\ iteration_timeouts # {}
          /\ idle_timeouts # {} /\ themes # {} /\ confirmed # {}
         THEN StorageResult(TRUE,
                  <<[default_cli |-> CHOOSE v \in clis : TRUE,
                     iteration_timeout_ms |-> CHOOSE n \in iteration_timeouts : TRUE,
                     idle_timeout_ms |-> CHOOSE n \in idle_timeouts : TRUE,
                     theme |-> CHOOSE v \in themes : TRUE,
                     permissions_confirmed |-> CHOOSE b \in confirmed : TRUE]>>, "")
         ELSE StorageResult(FALSE, <<>>, "JSON error")
\* models.rs lines 21-36: GlobalConfig::default().
GlobalConfig_default ==
    [default_cli |-> "Claude", iteration_timeout_ms |-> 600000, idle_timeout_ms |-> 120000,
     theme |-> "System", permissions_confirmed |-> FALSE]

\* Lines 69-75, called by the save_config command.
save_config(config) ==
    /\ Invoke
    /\ config_json' = <<GlobalConfig_to_string_pretty(config)>>
    /\ saved_config' = <<config>>
    /\ loaded' = StorageResult(TRUE, <<>>, "")
    /\ UNCHANGED <<state_json, saved_state>>
\* Lines 52-59: the two legacy defaults become 0.
MigrateTimeouts(config) ==
    [config EXCEPT
       !.iteration_timeout_ms = IF @ = 600000 THEN 0 ELSE @,
       !.idle_timeout_ms = IF @ = 120000 THEN 0 ELSE @]
\* load_config that returns the migrated configuration and leaves the file.
load_config_no_write_back ==
    /\ Invoke
    /\ config_json # <<>>
    /\ LET parsed == GlobalConfig_from_str(config_json[1])
       IN loaded' = IF parsed.ok
                      THEN StorageResult(TRUE, <<MigrateTimeouts(parsed.value[1])>>, "")
                      ELSE parsed
    /\ UNCHANGED <<config_json, state_json, saved_state, saved_config>>
\* Lines 38-66: without a file the default is written and returned as it is;
\* a file is parsed, the legacy defaults are replaced and, if one was, the
\* result is written back.
load_config ==
    /\ Invoke
    /\ IF config_json = <<>>
         THEN /\ config_json' = <<GlobalConfig_to_string_pretty(GlobalConfig_default)>>
              /\ loaded' = StorageResult(TRUE, <<GlobalConfig_default>>, "")
         ELSE LET parsed == GlobalConfig_from_str(config_json[1])
              IN IF parsed.ok
                   THEN /\ loaded' = StorageResult(TRUE, <<MigrateTimeouts(parsed.value[1])>>, "")
                        /\ config_json' =
                             IF MigrateTimeouts(parsed.value[1]) # parsed.value[1]
                               THEN <<GlobalConfig_to_string_pretty(
                                        MigrateTimeouts(parsed.value[1]))>>
                               ELSE config_json
                   ELSE loaded' = parsed /\ UNCHANGED config_json
    /\ UNCHANGED <<state_json, saved_state, saved_config>>

\* MaxCalls calls of the two functions on an empty data directory.
InitConfig ==
    /\ InitWith([e \in EngineIds |-> "absent"], MaxCalls)
    /\ adapter_output = <<>>
    /\ Idle("store")
    /\ task_cli = "Claude"
    /\ task_max_iterations = 1
SpecConfig ==
    /\ InitConfig
    /\ [][\/ \E config \in GlobalConfigs :
              save_config(config) /\ UNCHANGED <<NotStored, log_in, log_out, update_plan, path_out>>
          \/ load_config /\ UNCHANGED <<NotStored, log_in, log_out, update_plan, path_out>>]_vars

\* ---------------------------------------------------------- security/mod.rs
\* A log text is a sequence of tokens, each a character or a word that the
\* patterns name: "s" is sk, "k" is key, "A" is api, "p" is password, secret
\* or token, "E" is ANTHROPIC_API_KEY, "O" is OPENAI_API_KEY, "a" any other
\* letter or digit, "-" a dash or underscore, "=" an equals sign or colon,
\* "q" a quote of either kind, " " whitespace and "X" the text [REDACTED].
\* A word is matched whole, and the 20 characters that patterns 1 and 2 ask
\* for are MinKeyRun tokens.
LogTokens == {"s", "k", "A", "p", "E", "O", "a", "-", "=", "q", " ", "X"}
\* [a-zA-Z0-9] and [a-zA-Z0-9_-].
Alnum == {"s", "k", "A", "p", "a"}
KeyChars == Alnum \cup {"-", "E", "O"}
\* Largest number of tokens of a log text.
MaxLogLen == 5
\* Number of tokens that stand for the {20,} of patterns 1 and 2.
MinKeyRun == 2

\* The end of the longest run of tokens of C that starts at position i of s
\* (i - 1 if s[i] is not in C): a greedy class repetition.
RECURSIVE RunEnd(_, _, _)
RunEnd(s, i, C) == IF i <= Len(s) /\ s[i] \in C THEN RunEnd(s, i + 1, C) ELSE i - 1
\* s holds the tokens of `literal` at position i.
At(s, i, literal) ==
    i + Len(literal) - 1 <= Len(s) /\ SubSeq(s, i, i + Len(literal) - 1) = literal
\* \s*['"]?C+['"]? from position i on: the end of the match, 0 if there is none.
ValueEnd(s, i, C) ==
    LET v == RunEnd(s, i, {" "}) + 1
        w == IF v <= Len(s) /\ s[v] = "q" THEN v + 1 ELSE v
        e == RunEnd(s, w, C)
    IN IF e < w THEN 0
       ELSE IF e + 1 <= Len(s) /\ s[e + 1] = "q" THEN e + 1 ELSE e
\* Lines 7-17: the end of the match of pattern n that starts at position i,
\* 0 if there is none.
MatchEnd(n, s, i) ==
    CASE n = 1 -> IF At(s, i, <<"s", "-">>) /\ RunEnd(s, i + 2, Alnum) >= i + 1 + MinKeyRun
                    THEN RunEnd(s, i + 2, Alnum) ELSE 0
      [] n = 2 -> IF At(s, i, <<"k", "-">>) /\ RunEnd(s, i + 2, Alnum) >= i + 1 + MinKeyRun
                    THEN RunEnd(s, i + 2, Alnum) ELSE 0
      [] n = 3 -> IF At(s, i, <<"A", "-", "k", "=">>) THEN ValueEnd(s, i + 4, KeyChars)
                  ELSE IF At(s, i, <<"A", "k", "=">>) THEN ValueEnd(s, i + 3, KeyChars)
                  ELSE 0
      [] n = 4 -> IF At(s, i, <<"E", "=">>) /\ RunEnd(s, i + 2, LogTokens \ {" "}) >= i + 2
                    THEN RunEnd(s, i + 2, LogTokens \ {" "}) ELSE 0
      [] n = 5 -> IF At(s, i, <<"O", "=">>) /\ RunEnd(s, i + 2, LogTokens \ {" "}) >= i + 2
                    THEN RunEnd(s, i + 2, LogTokens \ {" "}) ELSE 0
      [] n = 6 -> IF At(s, i, <<"p", "=">>) THEN ValueEnd(s, i + 2, LogTokens \ {" ", "q"})
                  ELSE 0

\* Line 21: Regex::replace_all(&result, "[REDACTED]") from position i on: the
\* leftmost match, then the matches after its end.
RECURSIVE replace_all(_, _, _)
replace_all(n, s, i) ==
    IF i > Len(s) THEN <<>>
    ELSE IF MatchEnd(n, s, i) # 0 THEN <<"X">> \o replace_all(n, s, MatchEnd(n, s, i) + 1)
    ELSE <<s[i]>> \o replace_all(n, s, i + 1)

\* Every pattern applied to the input instead of the result so far: only the
\* replacements of the last pattern are in the text returned.
sanitize_log_of_input(input) == replace_all(6, input, 1)
\* Lines 3-25: the six patterns applied in turn, each to the result of the
\* one before.
sanitize_log(input) ==
    LET RECURSIVE Apply(_, _)
        Apply(n, text) == IF n > 6 THEN text ELSE Apply(n + 1, replace_all(n, text, 1))
    IN Apply(1, input)

SanitizeLog ==
    /\ log_out = <<>>
    /\ log_out' = <<sanitize_log(log_in)>>
    /\ UNCHANGED <<log_in, NotStored, state_json, config_json, loaded, saved_state,
                   saved_config, calls_left, update_plan, path_out>>
\* The function on its own, applied to every text of at most MaxLogLen tokens.
InitSanitize ==
    /\ InitWith([e \in EngineIds |-> "absent"], 0)
    /\ adapter_output = <<>>
    /\ Idle("log")
    /\ task_cli = "Claude"
    /\ task_max_iterations = 1
    /\ log_in \in Texts(LogTokens, MaxLogLen)
    /\ log_out = <<>>
SpecSanitize == InitSanitize /\ [][SanitizeLog]_vars

\* ---------------------------------------------------------- auto_update.rs
\* A version text is a sequence of the characters "v", "0", "1" and ".".
VersionChars == {"v", "0", "1", "."}
\* Largest number of v's a release tag starts with, and of the characters
\* that follow them.
MaxLeadingV == 1
MaxTagLen == 5
\* Largest number of assets of a release.
MaxAssets == 2

\* semver's Version::parse on such a text: exactly three numbers separated by
\* dots, each one or more digits without a leading zero; no or one version
\* <<major, minor, patch>>.
Version_parse(text) ==
    LET RECURSIVE Parts(_, _)
        \* the dot-separated pieces of the text, `part` being the piece begun
        Parts(rest, part) ==
            IF rest = <<>> THEN <<part>>
            ELSE IF Head(rest) = "." THEN <<part>> \o Parts(Tail(rest), <<>>)
            ELSE Parts(Tail(rest), Append(part, Head(rest)))
        RECURSIVE Value(_)
        Value(digits) ==
            IF digits = <<>> THEN 0
            ELSE 10 * Value(SubSeq(digits, 1, Len(digits) - 1))
                 + (IF digits[Len(digits)] = "1" THEN 1 ELSE 0)
        Numeric(part) ==
            /\ part # <<>>
            /\ \A i \in 1 .. Len(part) : part[i] \in {"0", "1"}
            /\ Len(part) > 1 => part[1] # "0"
        parts == Parts(text, <<>>)
    IN  IF Len(parts) = 3 /\ \A i \in 1 .. 3 : Numeric(parts[i])
          THEN <<(<<Value(parts[1]), Value(parts[2]), Value(parts[3])>>)>>
          ELSE <<>>

\* Version's Display: the three numbers in decimal, joined by dots.
Version_to_string(version) ==
    LET RECURSIVE Decimal(_)
        Decimal(n) ==
            (IF n >= 10 THEN Decimal(n \div 10) ELSE <<>>) \o <<ToString(n % 10)>>
    IN  Decimal(version[1]) \o <<".">> \o Decimal(version[2]) \o <<".">>
            \o Decimal(version[3])

\* Version's Ord on versions without pre-release and build: a <= b.
VersionLe(a, b) ==
    \/ a[1] < b[1]
    \/ a[1] = b[1] /\ a[2] < b[2]
    \/ a[1] = b[1] /\ a[2] = b[2] /\ a[3] <= b[3]

\* An asset by its name: "platform" ends with the extension of the target
\* platform, "other" does not.
AssetNames == {"platform", "other"}
\* A selection that takes the first asset whatever its name.
select_first_asset(assets) == IF assets = <<>> THEN <<>> ELSE <<assets[1]>>
\* Lines 301-313: the first asset whose name ends with the extension, if any.
select_asset(assets) ==
    LET matching == {i \in 1 .. Len(assets) : assets[i].name = "platform"}
    IN  IF matching = {} THEN <<>>
        ELSE <<assets[CHOOSE i \in matching : \A j \in matching : i <= j]>>

\* A Result<UpdatePlan, String>.
PlanResult(ok, plan, latest_version, asset, error) ==
    [ok |-> ok, plan |-> plan, latest_version |-> latest_version, asset |-> asset,
     error |-> error]

\* Lines 91-118.
plan_update(current_version, release, idle_ok) ==
    LET RECURSIVE TrimStartV(_)
        TrimStartV(text) ==
            IF text # <<>> /\ Head(text) = "v" THEN TrimStartV(Tail(text)) ELSE text
        latest_version == Version_parse(TrimStartV(release.tag_name))
        parsed == Version_parse(current_version)
        current == IF parsed = <<>> THEN <<0, 0, 0>> ELSE parsed[1]
        asset == select_asset(release.assets)
    IN  IF latest_version = <<>>
          THEN PlanResult(FALSE, "", <<>>, <<>>, "Invalid version tag")
        ELSE IF VersionLe(latest_version[1], current)
          THEN PlanResult(TRUE, "NoUpdate", <<>>, <<>>, "")
        ELSE IF ~idle_ok
          THEN PlanResult(TRUE, "WaitingForIdle", Version_to_string(latest_version[1]),
                          <<>>, "")
        ELSE IF asset = <<>>
          THEN PlanResult(FALSE, "", <<>>, <<>>, "No suitable asset found")
        ELSE PlanResult(TRUE, "ReadyToDownload", Version_to_string(latest_version[1]),
                        asset, "")

PlanUpdate ==
    /\ update_plan = <<>>
    /\ update_plan' =
          <<plan_update(update_in.current_version, update_in.release, update_in.idle_ok)>>
    /\ UNCHANGED <<NotStored, path_out, log_in, log_out, state_json, config_json, loaded,
                   saved_state, saved_config, calls_left>>

\* The function on its own: every tag of at most MaxLeadingV v's and MaxTagLen
\* further characters, releases of at most MaxAssets assets, and current
\* versions that parse, that have a leading v or that are empty.
InitUpdate ==
    /\ InitWith([e \in EngineIds |-> "absent"], 0)
    /\ adapter_output = <<>>
    /\ Idle("update")
    /\ task_cli = "Claude"
    /\ task_max_iterations = 1
    /\ update_plan = <<>>
    /\ \E v \in 0 .. MaxLeadingV,
          tag \in Texts(VersionChars, MaxTagLen),
          names \in Texts(AssetNames, MaxAssets),
          current \in {<<>>, <<"0", ".", "0", ".", "0">>, <<"0", ".", "1", ".", "0">>,
                       <<"1", ".", "0", ".", "0">>, <<"v", "1", ".", "0", ".", "0">>},
          idle_ok \in BOOLEAN :
         update_in =
            [current_version |-> current,
             release |-> [tag_name |-> [i \in 1 .. v |-> "v"] \o tag,
                          assets |-> [i \in 1 .. Len(names) |->
                                         [name |-> names[i], browser_download_url |-> i]]],
             idle_ok |-> idle_ok]
SpecUpdate == InitUpdate /\ [][PlanUpdate]_vars

\* ------------------------------------------------- adapters/mod.rs: PATH
\* A PATH value is a text over the directory characters "a", "b" and the
\* separator ":"; a directory is a text without the separator.
\* Largest number of characters of a PATH value of the environment.
MaxPathLen == 3
\* The curated locations in the order collect_search_paths looks at them.
CuratedDirs == <<(<<"a">>), (<<"b">>)>>

\* env::split_paths: the pieces between the separators, empty ones included.
RECURSIVE split_paths(_)
split_paths(text) ==
    LET first == SelectSeq(text, LAMBDA c : c = ":")
        RECURSIVE Until(_)
        \* the characters before the first separator
        Until(rest) ==
            IF rest = <<>> \/ Head(rest) = ":" THEN <<>>
            ELSE <<Head(rest)>> \o Until(Tail(rest))
        head == Until(text)
    IN  IF first = <<>> THEN <<text>>
        ELSE <<head>> \o split_paths(SubSeq(text, Len(head) + 2, Len(text)))

\* env::join_paths: the directories with a separator between them; an error
\* (no value) when a directory holds the separator.
RECURSIVE join_paths(_)
join_paths(paths) ==
    IF \E i \in 1 .. Len(paths) : \E k \in 1 .. Len(paths[i]) : paths[i][k] = ":"
      THEN <<>>
    ELSE IF Len(paths) = 0 THEN <<(<<>>)>>
    ELSE IF Len(paths) = 1 THEN <<paths[1]>>
    ELSE <<paths[1] \o <<":">> \o join_paths(Tail(paths))[1]>>

\* Lines 91-95.
push_path(paths, path) ==
    IF \E i \in 1 .. Len(paths) : paths[i] = path THEN paths ELSE Append(paths, path)

\* Lines 103-185: the entries of the process's PATH as they are, then each
\* curated location that exists, through push_path.
collect_search_paths(env_path, exists) ==
    LET RECURSIVE Add(_, _)
        Add(paths, i) ==
            IF i > Len(CuratedDirs) THEN paths
            ELSE Add(IF i \in exists THEN push_path(paths, CuratedDirs[i]) ELSE paths, i + 1)
    IN  Add(IF env_path = <<>> THEN <<>> ELSE split_paths(env_path[1]), 1)

\* A merge that appends every entry of the extended search path.
apply_shell_env_no_contains(shell_path, env_path, exists) ==
    LET extra == join_paths(collect_search_paths(env_path, exists))
    IN  IF shell_path = <<>> THEN extra
        ELSE join_paths(split_paths(shell_path[1])
                        \o (IF extra = <<>> THEN <<>> ELSE split_paths(extra[1])))
\* Lines 187-190 and 360-375: the PATH of the login shell, if it has one, is
\* split, each entry of build_path_env's value that `combined` does not hold
\* is pushed, and the joined list is the command's PATH; without a PATH of the
\* login shell the command gets build_path_env's value.  No value: PATH is
\* not set on the command.
apply_shell_env(shell_path, env_path, exists) ==
    LET extra == join_paths(collect_search_paths(env_path, exists))
        RECURSIVE Merge(_, _)
        Merge(combined, rest) ==
            IF rest = <<>> THEN combined
            ELSE Merge(push_path(combined, Head(rest)), Tail(rest))
    IN  IF shell_path = <<>> THEN extra
        ELSE join_paths(Merge(split_paths(shell_path[1]),
                              IF extra = <<>> THEN <<>> ELSE split_paths(extra[1])))

ApplyShellEnv ==
    /\ path_out = <<>>
    /\ path_out' = <<apply_shell_env(path_in.shell, path_in.env, path_in.exists)>>
    /\ UNCHANGED <<NotStored, update_plan, log_in, log_out, state_json, config_json, loaded,
                   saved_state, saved_config, calls_left>>

\* The merge on its own: a login shell and a process environment with or
\* without a PATH of at most MaxPathLen characters, and any of the curated
\* locations existing.
InitPath ==
    /\ InitWith([e \in EngineIds |-> "absent"], 0)
    /\ adapter_output = <<>>
    /\ Idle("path")
    /\ task_cli = "Claude"
    /\ task_max_iterations = 1
    /\ path_out = <<>>
    /\ LET Values == {<<>>} \cup {<<text>> : text \in Texts({"a", "b", ":"}, MaxPathLen)}
       IN  path_in \in [shell : Values, env : Values,
                        exists : SUBSET (1 .. Len(CuratedDirs))]
SpecPath == InitPath /\ [][ApplyShellEnv]_vars

\* -------------------------------------------------------- scheduling
\* The run of Spec under the scheduling the engine relies on: the runtime keeps
\* polling the engine's task and the task start_loop spawned around it (weak
\* fairness of its steps), and a spawned child closes its stdout and its stderr
\* (engine/mod.rs lines 225-229 and 272-274, the arms Ok(None) that set
\* stdout_done and stderr_done).  The two arms are enabled only while the
\* select! of the read loop is polled, which the timer arm interrupts once a
\* second, hence strong fairness.  The commands are under no fairness.
SpecLive ==
    /\ Init
    /\ [][Next]_vars
    /\ \A e \in EngineIds :
          /\ WF_vars(EngineStep(e))
          /\ SF_vars(StdoutEnd(e))
          /\ SF_vars(StderrEnd(e))

\* ================================================================ claims
\* The engine emits an event in this step.
Emits(e) == last_event'[e] # last_event[e]
EmitsType(e, type) == Emits(e) /\ last_event'[e].type = type

\* C1: at most one Loop Engine task is active for the project at any time,
\* also when start_loop is invoked again before the previous engine returned.
C1_AtMostOneActiveEngine == Cardinality({e \in EngineIds : Active(e)}) <= 1

\* C2: an engine whose stop flag stop_loop set while it was reading child
\* output, waiting for the child to exit or paused at a gate ends by emitting
\* Stopped and returning Idle.
C2_StopEndsInStoppedIdle ==
    \A e \in EngineIds :
        (stop_arrival[e] \in {"reading", "waiting", "pre_wait", "post_wait"}
            /\ Returned(e))
        => (result[e][1] = "Idle" /\ last_event[e].type = "Stopped")

\* C3: once stop_loop has set the stop flag of an engine that had not started
\* yet or was suspended (reading, waiting for the child, paused), the engine
\* emits no further IterationStart and spawns no further child.
C3_NoIterationAfterStop ==
    [][\A e \in EngineIds :
          stop_arrival[e] \notin {"none", "other"}
          => (~EmitsType(e, "IterationStart")
              /\ ~(child[e] # "alive" /\ child'[e] = "alive"))]_vars

\* C4: stop always wins: an engine whose stop flag stop_loop set before it
\* returned returns Idle, and once its task has finished the stored status is
\* Cancelled.
C4_StopAlwaysWins ==
    \A e \in EngineIds :
        stop_arrival[e] \notin {"none", "other"}
        => /\ Returned(e) => result[e][1] = "Idle"
           /\ pc[e] = "finished" => status = "Cancelled"

\* C5: after Paused{n} the engine's next event is Resumed{n} (or Stopped),
\* never IterationStart or Output; after Resumed{n} the engine may pause again
\* at n, stop or run out of iterations, and the next IterationStart is
\* IterationStart{n+1}.
C5_PausedThenResumed ==
    [][\A e \in EngineIds :
          /\ (last_event[e].type = "Paused" /\ Emits(e))
             => \/ last_event'[e] = Event("Resumed", last_event[e].iteration)
                \/ last_event'[e].type = "Stopped"
          /\ (last_event[e].type = "Resumed" /\ Emits(e))
             => \/ last_event'[e] = Event("IterationStart", last_event[e].iteration + 1)
                \/ last_event'[e] = Event("Paused", last_event[e].iteration)
                \/ last_event'[e].type \in {"Stopped", "MaxIterationsReached"}]_vars

\* The engine was paused after iteration 1, was resumed and is about to start
\* iteration 2.
C5_Witness ==
    \E e \in EngineIds :
        /\ last_event[e] = Event("Resumed", 1)
        /\ pc[e] = "start_iteration"

\* C6: Paused is never emitted while the child of the current iteration is
\* alive, and a live child is killed, or the read loop left, only on stop, on
\* completion, on an Error (timeout, fatal guard) or at the end of both
\* streams, never on the pause flag.
C6_PauseNeverMidIteration ==
    [][\A e \in EngineIds :
          /\ EmitsType(e, "Paused") => child[e] # "alive"
          /\ (child[e] = "alive" /\ child'[e] = "killed")
             => \/ stop_requested[e] /\ EmitsType(e, "Stopped")
                \/ completed'[e]
                \/ EmitsType(e, "Error")
          /\ (pc[e] \in {"read", "select"} /\ pc'[e] \notin {"read", "select"})
             => \/ stop_requested[e] /\ EmitsType(e, "Stopped")
                \/ completed'[e]
                \/ EmitsType(e, "Error")
                \/ stdout_done[e] /\ stderr_done[e]]_vars

\* A pause requested for iteration 1 took effect after the child had exited by
\* itself.
C6_Witness ==
    \E e \in EngineIds :
        /\ last_event[e] = Event("Paused", 1)
        /\ pc[e] = "post_wait"
        /\ child[e] = "exited"

\* C7: a pause_loop accepted for a running engine is still pending when the
\* engine emits the next IterationStart without having emitted Paused, unless
\* a stop was requested: the request is not lost before its pause point.
C7_PauseTakesEffect ==
    [][\A e \in EngineIds :
          (EmitsType(e, "IterationStart") /\ pause_owed[e]
              /\ stop_arrival[e] = "none" /\ ~stop_requested[e])
          => pause_requested[e]]_vars

\* C8: every change of the stored status follows one of the edges Ready ->
\* Running, Running -> Pausing, Pausing -> Paused, Paused -> Running,
\* Running -> Done | Failed | Cancelled.
StatusEdges ==
    {<<"Ready", "Running">>, <<"Running", "Pausing">>, <<"Pausing", "Paused">>,
     <<"Paused", "Running">>, <<"Running", "Done">>, <<"Running", "Failed">>,
     <<"Running", "Cancelled">>}
C8_StatusEdges == [][status' # status => <<status, status'>> \in StatusEdges]_vars

\* C9: once the engine task has stored its outcome and the status is Done,
\* Failed or Cancelled, no pause_loop, resume_loop or stop_loop call and no
\* write of that task changes the status.
C9_TerminalStatusSticky ==
    [][((\E e \in EngineIds : pc[e] \in {"saved", "finished"})
            /\ status \in {"Done", "Failed", "Cancelled"})
       => status' = status]_vars

\* C10: the counter never decreases and changes only when IterationStart is
\* emitted; IterationStart carries the counter plus one, at most
\* max_iterations, so the numbers are 1, 2, .., k with k <= max_iterations;
\* a child is spawned only right after the IterationStart of its iteration.
C10_IterationNumbers ==
    [][\A e \in EngineIds :
          /\ iteration'[e] >= iteration[e]
          /\ iteration'[e] # iteration[e] => EmitsType(e, "IterationStart")
          /\ EmitsType(e, "IterationStart")
             => /\ last_event'[e].iteration = iteration[e] + 1
                /\ iteration'[e] = iteration[e] + 1
                /\ iteration'[e] <= max_iterations[e]
          /\ (child[e] # "alive" /\ child'[e] = "alive")
             => /\ last_event[e] = Event("IterationStart", iteration[e])
                /\ iteration[e] >= 1]_vars

\* The child of the second of two iterations is running.
C10_Witness ==
    \E e \in EngineIds :
        /\ iteration[e] = 2
        /\ max_iterations[e] = 2
        /\ child[e] = "alive"

\* C11: an Output or Error carries the number of the iteration in progress,
\* which IterationStart announced; an Output follows the IterationStart or an
\* Output of its iteration directly, so none follows an Error, Paused or
\* Completed of that iteration; Completed is emitted once, with the return of
\* start(), and no event of the engine follows it or any other return.
C11_EventOrder ==
    [][\A e \in EngineIds :
          /\ (EmitsType(e, "Output") \/ EmitsType(e, "Error"))
             => /\ last_event'[e].iteration = iteration[e]
                /\ iteration'[e] = iteration[e]
                /\ iteration[e] >= 1
          /\ EmitsType(e, "Output")
             => /\ last_event[e].type \in {"IterationStart", "Output"}
                /\ last_event[e].iteration = iteration[e]
          /\ EmitsType(e, "Completed")
             => /\ last_event'[e].iteration = iteration[e]
                /\ last_event[e].type # "Completed"
                /\ result'[e] = <<"Completed", iteration[e]>>
                /\ ~Returned(e) /\ Returned(e)'
          /\ Returned(e) => ~Emits(e)]_vars

\* The second iteration ended the run with Completed{2}.
C11_Witness ==
    \E e \in EngineIds :
        /\ last_event[e] = Event("Completed", 2)
        /\ result[e] = <<"Completed", 2>>

\* The event is the Output of a stdout line of iteration n that the adapter of
\* the engine parses as assistant content containing the completion signal.
AssistantSignalOutput(e, ev, n) ==
    /\ ev.type = "Output"
    /\ ev.stream = "stdout"
    /\ ev.iteration = n
    /\ parse_output_line(cli_type[e], ev.content).is_assistant
    /\ ContentContains(parse_output_line(cli_type[e], ev.content), ev.content)

\* C12: `completed` is set only by a stdout line that the adapter parsed with
\* is_assistant = true and content containing the signal; Completed{n} is
\* emitted and returned only right after the Output of such a line of
\* iteration n; a stderr line, or a stdout line parsed as non-assistant,
\* never sets `completed`, whether or not it holds the signal.
C12_CompletedOnlyOnAssistantSignal ==
    [][\A e \in EngineIds :
          /\ (completed'[e] /\ ~completed[e])
             => (Emits(e) /\ AssistantSignalOutput(e, last_event'[e], iteration[e]))
          /\ (EmitsType(e, "Completed") \/ (result'[e][1] = "Completed" /\ result[e][1] # "Completed"))
             => /\ AssistantSignalOutput(e, last_event[e], iteration[e])
                /\ last_event'[e] = Event("Completed", iteration[e])
                /\ result'[e] = <<"Completed", iteration[e]>>
          /\ (EmitsType(e, "Output")
                /\ \/ last_event'[e].stream = "stderr"
                   \/ ~parse_output_line(cli_type[e], last_event'[e].content).is_assistant)
             => (~completed'[e] /\ ~Returned(e)')]_vars

\* A Claude run completed in iteration 1 after a stderr line had been read.
C12_Witness ==
    \E e \in EngineIds :
        /\ result[e] = <<"Completed", 1>>
        /\ cli_type[e] = "Claude"
        /\ stderr_n[e] = 1

\* C13: parse_output_line of either adapter returns a line that is not JSON
\* as Text with is_assistant = false, and does not mark a tool item, a control
\* event or an unrecognised event as assistant, so that the completion test
\* of the engine fails on such a line.
C13_NonAssistantLines ==
    \A i \in 1 .. Len(adapter_parsed) :
        LET l == adapter_output[i]
            parsed == adapter_parsed[i]
        IN  /\ l.form = "plain"
               => (parsed.line_type = "Text" /\ ~parsed.is_assistant)
            /\ l.form \in {"plain", "tool_item", "control", "unknown_event"}
               => (~parsed.is_assistant /\ ~IsCompletion(parsed, l))

\* Both adapters read a stream of JSON lines.
NdjsonAdapter(cli) == cli \in {"Claude", "Codex"}
\* The signal occurs inside the content of an assistant message of the CLI.
AssistantContentHasSignal(cli, l) ==
    /\ l.form = (IF cli = "Claude" THEN "assistant_message" ELSE "agent_message")
    /\ l.signal = "field"

\* C14: detect_completion of an adapter reading JSON lines is true only when
\* the signal occurs inside the assistant content of some line of the output;
\* of a plain-text adapter it is true exactly when the output contains the
\* signal.
C14_DetectCompletion ==
    adapter_detected # "none"
    => IF NdjsonAdapter(task_cli)
         THEN adapter_detected = "true"
              => \E i \in 1 .. Len(adapter_output) :
                    AssistantContentHasSignal(task_cli, adapter_output[i])
         ELSE adapter_detected = "true"
              <=> \E i \in 1 .. Len(adapter_output) : adapter_output[i].signal # "none"

\* C15: MaxIterationsReached is emitted only when the counter equals
\* max_iterations, carries max_iterations and comes with the return of
\* Failed{max_iterations}; start() returns only on a stop (Stopped, Idle), on
\* completion (Completed), on the fatal guard (Error, Failed) or on this
\* exhaustion, so a run without stop, completion and guard ends after exactly
\* max_iterations iterations.
C15_Exhaustion ==
    [][\A e \in EngineIds :
          /\ EmitsType(e, "MaxIterationsReached")
             => /\ iteration[e] = max_iterations[e]
                /\ last_event'[e] = Event("MaxIterationsReached", max_iterations[e])
                /\ result'[e] = <<"Failed", max_iterations[e]>>
                /\ Returned(e)'
          /\ (~Returned(e) /\ Returned(e)')
             => \/ /\ stop_requested[e]
                   /\ EmitsType(e, "Stopped")
                   /\ result'[e][1] = "Idle"
                \/ /\ completed[e]
                   /\ EmitsType(e, "Completed")
                   /\ result'[e][1] = "Completed"
                \/ /\ last_event'[e] = ErrorEvent(iteration[e], CODEX_GIT_REPO_CHECK_REQUIRED)
                   /\ Emits(e)
                   /\ result'[e][1] = "Failed"
                \/ EmitsType(e, "MaxIterationsReached")]_vars

\* Two iterations ran without completion, and without any stop request the
\* run ended in MaxIterationsReached{2} and Failed{2}.
C15_Witness ==
    \E e \in EngineIds :
        /\ max_iterations[e] = 2
        /\ result[e] = <<"Failed", 2>>
        /\ last_event[e] = Event("MaxIterationsReached", 2)
        /\ ~stop_requested[e]
        /\ ~handler_stopped

\* The event is the Error of an iteration or idle timeout.
TimeoutError(ev) ==
    ev.type = "Error" /\ ev.error \in {"Iteration timeout", "Idle timeout"}
\* The event is the Error of a failed spawn.
SpawnError(ev) == ev.type = "Error" /\ ev.error = "Failed to spawn"
\* What the engine may emit next after a non-fatal Error of the iteration in
\* progress: IterationStart of the next iteration, Paused at a gate, Stopped
\* on a stop request, or MaxIterationsReached when the iteration was the last.
GoesOnAfterError(e) ==
    \/ last_event'[e] = Event("IterationStart", last_event[e].iteration + 1)
    \/ last_event'[e] = Event("Paused", last_event[e].iteration)
    \/ stop_requested[e] /\ last_event'[e].type = "Stopped"
    \/ /\ last_event[e].iteration = max_iterations[e]
       /\ last_event'[e].type = "MaxIterationsReached"

\* C16: a timeout in iteration n emits Error{n}, kills the child, leaves the
\* read loop and does not return; the next event of the engine is
\* IterationStart{n+1} unless a pause or stop was requested or n is
\* max_iterations.
C16_TimeoutNonFatal ==
    [][\A e \in EngineIds :
          /\ (Emits(e) /\ TimeoutError(last_event'[e]))
             => /\ last_event'[e].iteration = iteration[e]
                /\ child[e] = "alive" /\ child'[e] = "killed"
                /\ pc'[e] \notin {"read", "select"}
                /\ ~Returned(e)'
                /\ result'[e] = result[e]
          /\ (Emits(e) /\ TimeoutError(last_event[e])) => GoesOnAfterError(e)]_vars

\* Iteration 1 timed out, its child was killed, and iteration 2 has started.
C16_Witness ==
    \E e \in EngineIds :
        /\ last_event[e] = Event("IterationStart", 2)
        /\ child[e] = "killed"
        /\ pc[e] = "spawn"

C18_CodexFatalGuard ==
    [][\A e \in EngineIds :
          /\ (Emits(e) /\ last_event'[e].error = CODEX_GIT_REPO_CHECK_REQUIRED)
             => /\ cli_type[e] = "Codex"
                /\ last_event'[e] = ErrorEvent(iteration[e], CODEX_GIT_REPO_CHECK_REQUIRED)
                /\ child'[e] = "killed"
                /\ result'[e] = <<"Failed", iteration[e]>>
                /\ Returned(e)'
          /\ last_event[e].error = CODEX_GIT_REPO_CHECK_REQUIRED
             => (~Emits(e) /\ child'[e] = child[e] /\ iteration'[e] = iteration[e])
          /\ (EmitsType(e, "Output") /\ last_event'[e].stream = "stderr"
                /\ last_event'[e].content.trusted /\ last_event'[e].content.skip)
             => /\ cli_type[e] # "Codex"
                /\ pc'[e] = "read"
                /\ child'[e] = child[e]
                /\ result'[e] = result[e]]_vars

\* A Codex run was ended in iteration 1 by the fatal guard.
C18_Witness ==
    \E e \in EngineIds :
        /\ cli_type[e] = "Codex"
        /\ last_event[e] = ErrorEvent(1, CODEX_GIT_REPO_CHECK_REQUIRED)
        /\ result[e] = <<"Failed", 1>>
        /\ child[e] = "killed"

\* C19: from its registration by start_loop until its driving task has removed
\* the entry, the map holds the handle of the engine, so that get_loop_status
\* is true throughout the run; once every started engine's task has finished,
\* the map holds no entry and get_loop_status is false.
C19_RunningLoopsEntry ==
    /\ \A e \in EngineIds :
          pc[e] \notin {"absent", "new", "finished"}
          => (running_loops = e /\ get_loop_status)
    /\ ((\E e \in EngineIds : pc[e] = "finished")
          /\ \A e \in EngineIds : pc[e] \in {"absent", "new", "finished"})
       => ~get_loop_status

\* C20: every engine start_loop created has 0 < max_iterations, after any
\* sequence of update_task_max_iterations and complete_ai_brainstorm calls,
\* and no engine emits MaxIterationsReached before an IterationStart.
C20_PositiveMaxIterations ==
    \A e \in EngineIds :
        /\ pc[e] \notin {"absent", "new"} => max_iterations[e] > 0
        /\ last_event[e].type = "MaxIterationsReached" => last_event[e].iteration >= 1

\* C21: ensure_autodecide_prompt is idempotent.  Applied to a prompt that
\* contains the marker it leaves the prompt unchanged and returns false; so a
\* second application changes nothing, and after the first application the
\* marker occurs exactly once in a prompt that did not contain it.
C21_AutodecideIdempotent ==
    [][/\ Contains(prompt, AUTO_DECIDE_MARKER)
          => /\ prompt' = prompt
             /\ prompt_updated' = Append(prompt_updated, FALSE)
       /\ prompt_updated # <<>> => prompt' = prompt
       /\ ~Contains(prompt, AUTO_DECIDE_MARKER)
          => /\ Cardinality(Occurrences(prompt', AUTO_DECIDE_MARKER)) = 1
             /\ prompt_updated' = Append(prompt_updated, TRUE)]_vars
\* Two applications to a prompt without the marker: the first added the policy.
C21_Witness ==
    /\ prompt_updated = <<TRUE, FALSE>>
    /\ Cardinality(Occurrences(prompt, AUTO_DECIDE_MARKER)) = 1
    /\ Len(prompt) > Len(AUTO_DECIDE_MARKER) + Len(PolicyInstructions) + 3

\* C22: for an input that starts with one top-level JSON object followed by
\* any text, extract_balanced_json returns exactly that object; braces and
\* brackets inside string literals, also after an escaped quote, do not count.
C22_ExtractsTopLevelObject ==
    (ai_shape = "object" /\ ai_extracted # NotCalled) => ai_extracted = Ok(ai_object)
\* The object {"\"":a} followed by a closing brace.
C22_Witness ==
    /\ ai_shape = "object"
    /\ ai_object = <<"{", "\"", "\\", "\"", "\"", ":", "a", "}">>
    /\ ai_output = ai_object \o <<"}">>
    /\ ai_extracted = Ok(ai_object)

\* A quote of s that no backslash escapes: it is preceded by an even number of
\* consecutive backslashes.  In a prefix of a JSON text a character is inside
\* a string literal when an odd number of such quotes precede it.
UnescapedQuote(s, i) ==
    /\ s[i] = "\""
    /\ \E n \in 0 .. i - 1 :
         /\ n % 2 = 0
         /\ \A k \in i - n .. i - 1 : s[k] = "\\"
         /\ (i - n > 1 => s[i - n - 1] # "\\")
InsideString(s, i) == Cardinality({k \in 1 .. i - 1 : UnescapedQuote(s, k)}) % 2 = 1
\* The braces of s still open at its end.
OpenBraces(s) ==
    Cardinality({i \in 1 .. Len(s) : s[i] = "{" /\ ~InsideString(s, i)})
    - Cardinality({i \in 1 .. Len(s) : s[i] = "}" /\ ~InsideString(s, i)})

C24_TruncatedJsonIsError ==
    (/\ ai_shape = "prefix"
     /\ Len(ai_output) = Len(ai_object) - 1
     /\ ai_response # NotCalled)
        => ai_response = Err("Incomplete JSON: missing closing brace(s)", 1)

C26_ProjectStateRoundTrip ==
    [][\A id \in ProjectIds :
         load_project_state(id)
           => loaded' = IF saved_state[id] = <<>>
                          THEN StorageResult(FALSE, <<>>, "Project not found")
                          ELSE StorageResult(TRUE, saved_state[id], "")]_vars
\* Project 2 was saved with a task after project 1 was saved, and loaded.
C26_Witness ==
    /\ saved_state[1] # <<>>
    /\ saved_state[2] # <<>>
    /\ saved_state[2][1].task # <<>>
    /\ loaded = StorageResult(TRUE, saved_state[2], "")

\* C27: load_config after save_config(c) returns c, except that an
\* iteration_timeout_ms of 600000 and an idle_timeout_ms of 120000 are returned
\* as 0, and then config.json holds the configuration returned.
C27_ConfigRoundTrip ==
    [][(load_config /\ saved_config # <<>>)
         => LET c == saved_config[1]
                expected ==
                  [c EXCEPT
                     !.iteration_timeout_ms = IF c.iteration_timeout_ms = 600000 THEN 0 ELSE @,
                     !.idle_timeout_ms = IF c.idle_timeout_ms = 120000 THEN 0 ELSE @]
            IN /\ loaded' = StorageResult(TRUE, <<expected>>, "")
               /\ expected # c
                    => config_json' = <<GlobalConfig_to_string_pretty(expected)>>
               /\ expected = c => config_json' = config_json]_vars
\* A configuration with both legacy defaults was saved, loaded as 0 and 0 and
\* written back.
C27_Witness ==
    /\ saved_config # <<>>
    /\ saved_config[1].iteration_timeout_ms = 600000
    /\ saved_config[1].idle_timeout_ms = 120000
    /\ loaded.ok /\ loaded.value # <<>>
    /\ loaded.value[1].iteration_timeout_ms = 0
    /\ loaded.value[1].idle_timeout_ms = 0
    /\ config_json = <<GlobalConfig_to_string_pretty(loaded.value[1])>>

\* C28: the result of sanitize_log holds no match of any of the six patterns.
C28_NoSecretPatternLeft ==
    log_out # <<>>
        => \A n \in 1 .. 6 : \A i \in 1 .. Len(log_out[1]) : MatchEnd(n, log_out[1], i) = 0
\* OPENAI_API_KEY=ANTHROPIC_API_KEY=a: pattern 4 replaces the inner assignment
\* and pattern 5 then matches a text that holds that replacement.
C28_Witness ==
    /\ log_in = <<"O", "=", "E", "=", "a">>
    /\ log_out = <<(<<"X">>)>>

\* C29: the content of every Output event the engine emits has been passed
\* through the redactor, so that no event forwards a line holding a secret as
\* the child wrote it.
C29_EventsAreRedacted ==
    \A e \in EngineIds :
        last_event[e].type = "Output" => ~last_event[e].content.secret

C34_ResumedCausedByResume ==
    [][\A e \in EngineIds : EmitsType(e, "Resumed") => resume_called[e]]_vars

\* C35: pause_loop, resume_loop and stop_loop invoked while the map holds no
\* handle for the project (the calls that return "Loop not running for this
\* project") leave the stored status as it is and emit no event.
C35_NoEntryNoEffect ==
    [][(running_loops = NoEngine /\ (pause_loop \/ resume_loop \/ stop_loop))
          => UNCHANGED <<status, handler_stopped, last_event>>]_vars

\* C36: a start_loop that returns an error has started no engine and has
\* added no handle to the running-engines map.
C36_FailedStartLeavesNoHandle ==
    [][\A e \in EngineIds, error \in StartErrors :
          start_loop_err(e, error)
             => /\ running_loops' = running_loops
                /\ ~Active(e)']_vars

\* C37: a stopped run has exactly one Stopped event on the loop-event topic,
\* and it is the run's last event: once Stopped has been emitted for the
\* project, no further Stopped, Output or IterationStart follows until the next
\* start_loop.
C37_OneStoppedThenSilence ==
    [][\A e \in EngineIds :
          (handler_stopped /\ Emits(e))
             => last_event'[e].type \notin {"Stopped", "Output", "IterationStart"}]_vars

\* C38: load_config never returns an iteration_timeout_ms of 600000 or an
\* idle_timeout_ms of 120000, and a load_config that follows a load_config
\* with no save_config in between returns the same configuration, also when
\* the first of the two created config.json from the defaults.
C38_LoadConfigStable ==
    [][load_config
         => /\ (loaded'.ok /\ loaded'.value # <<>>)
                => /\ loaded'.value[1].iteration_timeout_ms # 600000
                   /\ loaded'.value[1].idle_timeout_ms # 120000
            /\ (loaded.ok /\ loaded.value # <<>>) => loaded' = loaded]_vars

\* C39: an engine has at most one live child at a time, and no child of it is
\* alive once start() has returned: a child is spawned only when the previous
\* one has exited or was killed, and every return comes after the wait for the
\* child or after its kill.
C39_NoChildLeftAlive ==
    /\ [](\A e \in EngineIds : Returned(e) => child[e] # "alive")
    /\ [][\A e \in EngineIds :
            (pc[e] = "spawn" /\ child'[e] = "alive") => child[e] # "alive"]_vars
\* The run completed in its last iteration: the child of the first iteration
\* was waited for, the one of the last was killed on the completion signal.
C39_Witness ==
    \E e \in EngineIds :
        /\ Returned(e)
        /\ result[e] = <<"Completed", MaxIter>>
        /\ child[e] = "killed"

\* C40: once the engine task has finished (the terminal status is saved and
\* the handle removed, so that no pause_loop, resume_loop or stop_loop call
\* that found the handle is still running), the stored status is Done, Failed
\* or Cancelled.
C40_TerminalStatusAfterFinish ==
    (running_loops = NoEngine /\ \E e \in EngineIds : pc[e] = "finished")
        => status \in {"Done", "Failed", "Cancelled"}

\* C32: with the release's version parsed from its tag, and an unparsable
\* current version counted as 0.0.0, plan_update returns NoUpdate exactly when
\* the release is not newer than the current version; for a newer release it
\* returns WaitingForIdle when idle_ok is false, whatever the assets are,
\* ReadyToDownload with the first platform asset when idle_ok is true and the
\* release has one, and the error "No suitable asset found" when idle_ok is
\* true and it has none.  (A tag that holds no version gives the error
\* "Invalid version tag".)
C32_PlanUpdate ==
    update_plan # <<>>
        => LET plan == update_plan[1]
               body == SelectSeq(update_in.release.tag_name, LAMBDA c : c # "v")
               leading == Len(update_in.release.tag_name) - Len(body)
               tag == SubSeq(update_in.release.tag_name, leading + 1,
                             Len(update_in.release.tag_name))
               Small == {0, 1, 10, 11}
               Known == {<<a, b, c>> : a \in Small, b \in Small, c \in Small}
               latest == {v \in Known : Version_to_string(v) = tag}
               now == {v \in Known : Version_to_string(v) = update_in.current_version}
               current == IF now = {} THEN <<0, 0, 0>> ELSE CHOOSE v \in now : TRUE
               Newer(v) == \/ v[1] > current[1]
                           \/ v[1] = current[1] /\ v[2] > current[2]
                           \/ v[1] = current[1] /\ v[2] = current[2] /\ v[3] > current[3]
               platform == SelectSeq(update_in.release.assets,
                                     LAMBDA a : a.name = "platform")
           IN  IF latest = {}
                 THEN ~plan.ok /\ plan.error = "Invalid version tag"
                 ELSE LET v == CHOOSE w \in latest : TRUE
                      IN  /\ (plan.ok /\ plan.plan = "NoUpdate") <=> ~Newer(v)
                          /\ (Newer(v) /\ ~update_in.idle_ok)
                                => /\ plan.ok /\ plan.plan = "WaitingForIdle"
                                   /\ plan.latest_version = tag
                          /\ (Newer(v) /\ update_in.idle_ok /\ platform # <<>>)
                                => /\ plan.ok /\ plan.plan = "ReadyToDownload"
                                   /\ plan.latest_version = tag
                                   /\ plan.asset = <<platform[1]>>
                          /\ (Newer(v) /\ update_in.idle_ok /\ platform = <<>>)
                                => ~plan.ok /\ plan.error = "No suitable asset found"
\* The release v1.0.0 against the unparsable current version v1.0.0: its second
\* asset is the platform's and is the one to download.
C32_Witness ==
    /\ update_plan # <<>>
    /\ update_in.current_version = <<"v", "1", ".", "0", ".", "0">>
    /\ update_in.release.tag_name = <<"v", "1", ".", "0", ".", "0">>
    /\ update_in.idle_ok
    /\ update_plan[1].plan = "ReadyToDownload"
    /\ update_plan[1].asset = <<[name |-> "platform", browser_download_url |-> 2]>>

\* The PATH entries the command got, when the login shell has a PATH and the
\* merge gave a value; the entries of the login shell's PATH and those of the
\* extended search path, as apply_shell_env reads them from the two values.
C33_Merged == path_in.shell # <<>> /\ path_out # <<>> /\ path_out[1] # <<>>
C33_Result == split_paths(path_out[1][1])
C33_Shell == split_paths(path_in.shell[1])
C33_Extended ==
    LET extra == join_paths(collect_search_paths(path_in.env, path_in.exists))
    IN  IF extra = <<>> THEN <<>> ELSE split_paths(extra[1])
\* The login-shell entries come first, in their order, and are followed by the
\* entries of the extended search path that are not among them, each once, in
\* the order of their first occurrence.
C33_ShellFirstThenNew ==
    LET added == SubSeq(C33_Result, Len(C33_Shell) + 1, Len(C33_Result))
        InShell(d) == \E i \in 1 .. Len(C33_Shell) : C33_Shell[i] = d
        New == {i \in 1 .. Len(C33_Extended) :
                   /\ ~InShell(C33_Extended[i])
                   /\ \A j \in 1 .. i - 1 : C33_Extended[j] # C33_Extended[i]}
    IN  /\ Len(C33_Result) >= Len(C33_Shell)
        /\ SubSeq(C33_Result, 1, Len(C33_Shell)) = C33_Shell
        /\ Len(added) = Cardinality(New)
        /\ \A k \in 1 .. Len(added) :
              \E i \in New : /\ added[k] = C33_Extended[i]
                             /\ Cardinality({j \in New : j < i}) = k - 1

C31_EngineTerminates ==
    /\ \A e \in EngineIds : ([]~pause_requested[e]) => (Active(e) ~> Returned(e))
    /\ [](\A e \in EngineIds :
             Returned(e) => /\ result[e][1] \in {"Completed", "Failed", "Idle"}
                            /\ iteration[e] <= max_iterations[e])
\* An engine that was never asked to pause or to stop returned Failed after
\* MaxIter iterations, none of which saw the completion signal.
C31_Witness ==
    \E e \in EngineIds :
        /\ pc[e] = "returned"
        /\ max_iterations[e] = MaxIter
        /\ result[e] = <<"Failed", MaxIter>>
        /\ last_event[e].type = "MaxIterationsReached"
        /\ ~pause_requested[e] /\ ~stop_requested[e] /\ ~resume_notify[e]
        /\ status = "Running"

====
